---- MODULE Spec2Model ----
(***************************************************************************)
(* A model of the Khmer text front end of StableTTS: the ordered           *)
(* normalisation pipeline of text/khmer_textnorm.py (numerals, dates,      *)
(* fractions, money, ...), the lexicon-driven longest-matching segmenters  *)
(* of text/khmer_word_segmentation.py, khmer_g2p of text/khmer.py and the  *)
(* loaders of the lexicon and of the override tables.                      *)
(*                                                                         *)
(* Text is a sequence of characters.  A character is a string: an ASCII    *)
(* character stands for itself ("4", "/", " "), any other character is     *)
(* named after its Unicode name ("k_SA" = KHMER LETTER SA, "v_UU" = KHMER  *)
(* VOWEL SIGN UU, "s_COENG" = KHMER SIGN COENG, "d_FOUR" = KHMER DIGIT     *)
(* FOUR).  Offsets into a text are Python's, counted from 0.               *)
(*                                                                         *)
(* Python integers are unbounded and TLC's are 32-bit: every number the    *)
(* model converts is below 2^31, and the scale-table entry for 10^12 is    *)
(* therefore absent from KHMER_NUMBERS below.                              *)
(***************************************************************************)
EXTENDS Integers, Sequences, FiniteSets, TLC

VARIABLES
    pc,        \* position of the running call ("idle", a stage name, "done", "raised")
    input,     \* the text the running call was given
    text,      \* normalize_khmer_text's local variable `text`
    cfg,       \* the eleven normalize_* switches of the running call
    applied,   \* stages applied so far: <<[stage, in, out], ...>>
    fracSpans, \* [start, end) spans of `text` written by the fraction pass
    dateLog,   \* what the no-year date pass did with each of its matches
    calls,     \* number of calls of normalize_khmer_text made so far
    results,   \* the returned calls, oldest first: <<[in, out], ...>>
    CARDINAL_TESTDATA,  \* the module global _CARDINAL_TESTDATA (override table)
    DIGIT_TESTDATA,     \* the module global _DIGIT_TESTDATA (override table)
    seg,       \* the call of a segmenter: its arguments and its result
    segtext,   \* the call of segment_khmer_text: its arguments and its outcome
    conv,      \* the call of number_to_khmer_words: its frames and its outcome
    g2p,       \* the call of khmer_g2p: its arguments, its position and its outcome
    load,      \* the call of a table loader: its file, its position and its result
    LEXICON    \* the lexicon file as loaded at import: word -> phoneme tokens

vars == <<pc, input, text, cfg, applied, fracSpans, dateLog, calls, results,
          CARDINAL_TESTDATA, DIGIT_TESTDATA, seg, segtext, conv, g2p, load,
          LEXICON>>

\* the state of the call of normalize_khmer_text
pipeline == <<pc, input, text, cfg, applied, fracSpans, dateLog, calls, results>>

\* the module globals
globals == <<CARDINAL_TESTDATA, DIGIT_TESTDATA, LEXICON>>

----------------------------------------------------------------------------
(* Characters and Python's character classes (re with str patterns).       *)

AsciiDigits == {"0", "1", "2", "3", "4", "5", "6", "7", "8", "9"}

AsciiLower ==
    {"a", "b", "c", "d", "e", "f", "g", "h", "i", "j", "k", "l", "m",
     "n", "o", "p", "q", "r", "s", "t", "u", "v", "w", "x", "y", "z"}

AsciiUpper ==
    {"A", "B", "C", "D", "E", "F", "G", "H", "I", "J", "K", "L", "M",
     "N", "O", "P", "Q", "R", "S", "T", "U", "V", "W", "X", "Y", "Z"}

\* Letters of the Vietnamese date words 'ngày' and 'tháng'.
LatinExtra == {"l_A_GRAVE", "l_A_ACUTE"}

\* Khmer consonants, independent vowels and digits: str.isalnum() holds, so \w matches.
KhmerWordChars ==
    {"k_KA", "k_KHA", "k_KO", "k_KHO", "k_NGO", "k_CA", "k_CHA", "k_CO", "k_CHO", "k_NYO",
     "k_DA", "k_TTHA", "k_DO", "k_TTHO", "k_NNO", "k_TA", "k_THA", "k_TO", "k_THO", "k_NO",
     "k_BA", "k_PHA", "k_PO", "k_PHO", "k_MO", "k_YO", "k_RO", "k_LO", "k_VO", "k_SHA",
     "k_SSO", "k_SA", "k_HA", "k_LA", "k_QA", "iv_QAQ", "iv_QAA", "iv_QI", "iv_QII", "iv_QU",
     "iv_QUK", "iv_QUU", "iv_QUUV", "iv_RY", "iv_RYY", "iv_LY", "iv_LYY", "iv_QE", "iv_QAI",
     "iv_QOO_TYPE_ONE", "iv_QOO_TYPE_TWO", "iv_QAU", "d_ZERO", "d_ONE", "d_TWO", "d_THREE",
     "d_FOUR", "d_FIVE", "d_SIX", "d_SEVEN", "d_EIGHT", "d_NINE"}

\* Khmer dependent vowels and signs (categories Mn, Mc): \w does not match them.
KhmerSigns ==
    {"v_AA", "v_I", "v_II", "v_Y", "v_YY", "v_U", "v_UU", "v_UA", "v_OE", "v_YA", "v_IE",
     "v_E", "v_AE", "v_AI", "v_OO", "v_AU", "s_NIKAHIT", "s_REAHMUK", "s_YUUKALEAPINTU",
     "s_MUUSIKATOAN", "s_TRIISAP", "s_BANTOC", "s_ROBAT", "s_TOANDAKHIAT", "s_KAKABAT",
     "s_AHSDA", "s_SAMYOK_SANNYA", "s_VIRIAM", "s_COENG", "s_BATHAMASAT"}


\* \d : Unicode decimal digits (category Nd); the Khmer digits are among them.
KhmerDigits ==
    {"d_ZERO", "d_ONE", "d_TWO", "d_THREE", "d_FOUR", "d_FIVE", "d_SIX", "d_SEVEN",
     "d_EIGHT", "d_NINE"}

Digit == AsciiDigits \cup KhmerDigits

\* \w : str.isalnum() or "_".
WordChar == AsciiDigits \cup AsciiLower \cup AsciiUpper \cup {"_"} \cup LatinExtra
            \cup KhmerWordChars

\* \s : the whitespace of the modelled texts.
Space == {" ", "TAB", "LF"}

\* str.isalpha() on the modelled characters.
Alpha == (WordChar \ Digit) \ {"_"}

\* str.lower() of one character.
LowerOf ==
    [c \in AsciiUpper |->
        CASE c = "A" -> "a" [] c = "B" -> "b" [] c = "C" -> "c" [] c = "D" -> "d"
          [] c = "E" -> "e" [] c = "F" -> "f" [] c = "G" -> "g" [] c = "H" -> "h"
          [] c = "I" -> "i" [] c = "J" -> "j" [] c = "K" -> "k" [] c = "L" -> "l"
          [] c = "M" -> "m" [] c = "N" -> "n" [] c = "O" -> "o" [] c = "P" -> "p"
          [] c = "Q" -> "q" [] c = "R" -> "r" [] c = "S" -> "s" [] c = "T" -> "t"
          [] c = "U" -> "u" [] c = "V" -> "v" [] c = "W" -> "w" [] c = "X" -> "x"
          [] c = "Y" -> "y" [] c = "Z" -> "z"]

LowerChar(c) == IF c \in AsciiUpper THEN LowerOf[c] ELSE c

Lower(s) == [i \in 1..Len(s) |-> LowerChar(s[i])]

----------------------------------------------------------------------------
(* Sequences as Python strings.                                            *)

\* s[a:b] for 0 <= a, b (Python clamps b to len(s)).
Slice(s, a, b) ==
    LET e == IF b > Len(s) THEN Len(s) ELSE b
    IN  IF a >= e THEN <<>> ELSE SubSeq(s, a + 1, e)

Max(a, b) == IF a > b THEN a ELSE b

Min(a, b) == IF a < b THEN a ELSE b

\* `sub in s` at offset p.
OccursAt(sub, s, p) == p + Len(sub) <= Len(s) /\ Slice(s, p, p + Len(sub)) = sub

\* `sub in s`.
Contains(s, sub) == \E p \in 0..Len(s) : OccursAt(sub, s, p)

RECURSIVE Concat(_)
\* "".join(parts)
Concat(parts) ==
    IF parts = <<>> THEN <<>> ELSE Head(parts) \o Concat(Tail(parts))

RECURSIVE Join(_, _)
\* sep.join(parts)
Join(sep, parts) ==
    IF parts = <<>> THEN <<>>
    ELSE IF Len(parts) = 1 THEN parts[1]
    ELSE parts[1] \o sep \o Join(sep, Tail(parts))

\* the least of a non-empty set of offsets
Least(offsets) == CHOOSE q \in offsets : \A r \in offsets : q <= r

RECURSIVE ReplaceFrom(_, _, _, _)
RECURSIVE ReplaceAmong(_, _, _, _, _)
\* str.replace(old, new) scanning from offset p, old non-empty: the leftmost
\* occurrence at or after p is replaced and the scan goes on behind it
ReplaceFrom(s, old, new, p) ==
    ReplaceAmong(s, old, new, p, {q \in p..Len(s) : OccursAt(old, s, q)})

\* the same, `hits` being the offsets at or after p where old occurs
ReplaceAmong(s, old, new, p, hits) ==
    IF hits = {} THEN Slice(s, p, Len(s))
    ELSE Slice(s, p, Least(hits)) \o new \o ReplaceFrom(s, old, new, Least(hits) + Len(old))

Replace(s, old, new) == ReplaceFrom(s, old, new, 0)

----------------------------------------------------------------------------
(* Python's re: a backtracking matcher.  A pattern is a tree of nodes; a   *)
(* match state is [pos, g] with g the spans of groups 1..3 (<<-1, -1>>     *)
(* when the group did not take part).  ReMatch returns every way the node  *)
(* can match from a state, in the order in which the backtracking matcher  *)
(* tries them; the first one is the match Python reports.                  *)

Chr(set) == [op |-> "set", set |-> set]

Lit(c) == Chr({c})

Cat(parts) == [op |-> "cat", parts |-> parts]

Alt(parts) == [op |-> "alt", parts |-> parts]

\* sub{min,max}, greedy
Rep(sub, min, max) == [op |-> "rep", sub |-> sub, min |-> min, max |-> max, unb |-> FALSE]

\* sub{min,}, greedy
RepFrom(sub, min) == [op |-> "rep", sub |-> sub, min |-> min, max |-> 0, unb |-> TRUE]

Opt(sub) == Rep(sub, 0, 1)

Star(sub) == RepFrom(sub, 0)

Plus(sub) == RepFrom(sub, 1)

\* (sub) as capturing group idx
Grp(idx, sub) == [op |-> "grp", idx |-> idx, sub |-> sub]

\* \b
WordBoundary == [op |-> "wb"]

\* (?!sub)
NotAhead(sub) == [op |-> "nla", sub |-> sub]

\* a literal string
Str(s) == Cat([i \in 1..Len(s) |-> Lit(s[i])])

NoGroups == <<<<-1, -1>>, <<-1, -1>>, <<-1, -1>>>>

\* \b holds at offset p of s
IsBoundary(s, p) ==
    (p > 0 /\ s[p] \in WordChar) # (p < Len(s) /\ s[p + 1] \in WordChar)

RECURSIVE ReMatch(_, _, _)
RECURSIVE ReMatchAll(_, _, _)
RECURSIVE ReCat(_, _, _, _)
RECURSIVE ReAlt(_, _, _, _)
RECURSIVE ReRep(_, _, _, _, _, _)
RECURSIVE ReRepAll(_, _, _, _, _, _)

\* the matches from each state of sts, in the order of sts (halved, to keep the
\* evaluation shallow)
ReMatchAll(node, s, sts) ==
    IF sts = <<>> THEN <<>>
    ELSE IF Len(sts) = 1 THEN ReMatch(node, s, sts[1])
    ELSE LET h == Len(sts) \div 2
         IN  ReMatchAll(node, s, SubSeq(sts, 1, h))
             \o ReMatchAll(node, s, SubSeq(sts, h + 1, Len(sts)))

ReCat(parts, k, s, sts) ==
    IF k > Len(parts) \/ sts = <<>> THEN sts
    ELSE ReCat(parts, k + 1, s, ReMatchAll(parts[k], s, sts))

ReAlt(parts, k, s, st) ==
    IF k > Len(parts) THEN <<>>
    ELSE ReMatch(parts[k], s, st) \o ReAlt(parts, k + 1, s, st)

ReRepAll(sub, min, max, unb, s, sts) ==
    IF sts = <<>> THEN <<>>
    ELSE IF Len(sts) = 1 THEN ReRep(sub, min, max, unb, s, sts[1])
    ELSE LET h == Len(sts) \div 2
         IN  ReRepAll(sub, min, max, unb, s, SubSeq(sts, 1, h))
             \o ReRepAll(sub, min, max, unb, s, SubSeq(sts, h + 1, Len(sts)))

\* the length of the run of characters of `set` that starts at offset p of s
RunLen(set, s, p) ==
    CHOOSE k \in 0..(Len(s) - p) :
        /\ \A j \in 1..k : s[p + j] \in set
        /\ (k = Len(s) - p \/ s[p + k + 1] \notin set)

\* the most characters of a run that a repetition {.., max} takes
RunTop(run, max, unb) == IF unb \/ run < max THEN run ELSE max

\* the states after taking top, top - 1, ..., low characters from state st
RunStates(st, top, low) ==
    [i \in 1..(top - low + 1) |-> [st EXCEPT !.pos = st.pos + top - i + 1]]

\* greedy repetition of a character set: the longest run first, then shorter ones
ReRepSet(set, min, max, unb, s, st) ==
    RunStates(st, RunTop(RunLen(set, s, st.pos), max, unb), IF min < 0 THEN 0 ELSE min)

\* greedy: one more iteration is tried before stopping here
ReRep(sub, min, max, unb, s, st) ==
    IF sub.op = "set" THEN ReRepSet(sub.set, min, max, unb, s, st)
    ELSE (IF unb \/ max > 0
          THEN ReRepAll(sub, min - 1, max - 1, unb, s, ReMatch(sub, s, st))
          ELSE <<>>)
         \o (IF min <= 0 THEN <<st>> ELSE <<>>)

\* the states rs, each with group idx set to the span from offset p to its position
GrpSpans(idx, p, rs) ==
    [i \in 1..Len(rs) |-> [rs[i] EXCEPT !.g[idx] = <<p, rs[i].pos>>]]

ReMatch(node, s, st) ==
    CASE node.op = "set" ->
            IF st.pos < Len(s) /\ s[st.pos + 1] \in node.set
            THEN <<[st EXCEPT !.pos = @ + 1]>> ELSE <<>>
      [] node.op = "cat" -> ReCat(node.parts, 1, s, <<st>>)
      [] node.op = "alt" -> ReAlt(node.parts, 1, s, st)
      [] node.op = "rep" -> ReRep(node.sub, node.min, node.max, node.unb, s, st)
      [] node.op = "grp" -> GrpSpans(node.idx, st.pos, ReMatch(node.sub, s, st))
      [] node.op = "wb" -> IF IsBoundary(s, st.pos) THEN <<st>> ELSE <<>>
      [] node.op = "nla" ->
            IF ReMatch(node.sub, s, st) = <<>> THEN <<st>> ELSE <<>>

\* what pattern.match(s, p) reports, rs being the ways to match from offset p
MatchOf(p, rs) ==
    IF rs = <<>> THEN [found |-> FALSE]
    ELSE [found |-> TRUE, start |-> p, end |-> rs[1].pos, g |-> rs[1].g]

\* pattern.match(s, p): the match starting at offset p, or none
MatchAt(pat, s, p) == MatchOf(p, ReMatch(pat, s, [pos |-> p, g |-> NoGroups]))

\* the match at the least of the offsets `starts` where the pattern matches
SearchAmong(pat, s, starts) ==
    IF starts = {} THEN [found |-> FALSE] ELSE MatchAt(pat, s, Least(starts))

\* pattern.search(s, p): the leftmost match starting at or after offset p
Search(pat, s, p) == SearchAmong(pat, s, {q \in p..Len(s) : MatchAt(pat, s, q).found})

RECURSIVE FindAllFrom(_, _, _)
RECURSIVE FindAllAfter(_, _, _)

\* the match m and the matches behind it
FindAllAfter(pat, s, m) ==
    IF ~m.found THEN <<>> ELSE <<m>> \o FindAllFrom(pat, s, m.end)

\* the matches re.sub / re.finditer visit: leftmost first, not overlapping
\* (no modelled pattern matches the empty string)
FindAllFrom(pat, s, p) == FindAllAfter(pat, s, Search(pat, s, p))

FindAll(pat, s) == FindAllFrom(pat, s, 0)

\* match.group(0)
Group0(s, m) == Slice(s, m.start, m.end)

\* match.group(k) is not None
HasGroup(m, k) == m.g[k][1] >= 0

\* match.group(k)
Group(s, m, k) == Slice(s, m.g[k][1], m.g[k][2])

RECURSIVE SubFrom(_, _, _, _, _)
\* re.sub(pattern, repl, s): ms are the matches, reps[i] what repl returned for ms[i]
SubFrom(s, ms, reps, i, p) ==
    IF i > Len(ms) THEN Slice(s, p, Len(s))
    ELSE Slice(s, p, ms[i].start) \o reps[i] \o SubFrom(s, ms, reps, i + 1, ms[i].end)

Sub(s, ms, reps) == SubFrom(s, ms, reps, 1, 0)

----------------------------------------------------------------------------
(* The constant tables of khmer_textnorm.py.                               *)

\* month number -> month name
KHMER_MONTHS ==
    1 :> <<"k_MO", "k_KA", "k_RO", "v_AA">>
    @@ 2 :> <<"k_KA", "v_U", "k_MO", "s_COENG", "k_PHO", "s_YUUKALEAPINTU">>
    @@ 3 :> <<"k_MO", "v_I", "k_NO", "v_AA">>
    @@ 4 :> <<"k_MO", "v_E", "k_SA", "v_AA">>
    @@ 5 :> <<"iv_QU", "k_SA", "k_PHO", "v_AA">>
    @@ 6 :> <<"k_MO", "v_I", "k_THA", "v_U", "k_NO", "v_AA">>
    @@ 7 :> <<"k_KA", "k_KA", "s_COENG", "k_KA", "k_DA", "v_AA">>
    @@ 8 :> <<"k_SA", "v_II", "k_HA", "v_AA">>
    @@ 9 :> <<"k_KA", "k_NYO", "s_COENG", "k_NYO", "v_AA">>
    @@ 10 :> <<"k_TA", "v_U", "k_LO", "v_AA">>
    @@ 11 :> <<"k_VO", "v_I", "k_CA", "s_COENG", "k_CHA", "v_I", "k_KA", "v_AA">>
    @@ 12 :> <<"k_THO", "s_COENG", "k_NO", "v_UU">>

\* currency code -> currency name
CURRENCY_NAMES ==
    "usd" :> <<"k_DA", "v_U", "k_LO", "s_COENG", "k_LO", "v_AA", "k_RO", " ", "k_QA", "v_AA", "k_MO", "v_E", "k_RO", "v_I", "k_KA">>
    @@ "gbp" :> <<"k_PHA", "v_OO", "k_NO">>
    @@ "jpy" :> <<"k_YO", "s_MUUSIKATOAN", "v_E", "k_NO", " ", "k_CO", "k_BA", "s_MUUSIKATOAN", "v_U", "k_NO">>
    @@ "khr" :> <<"k_RO", "v_IE", "k_LO">>
    @@ "thb" :> <<"k_BA", "v_AA", "k_TA">>
    @@ "aud" :> <<"k_DA", "v_U", "k_LO", "s_COENG", "k_LO", "v_AA", "k_RO", " ", "k_QA", "v_UU", "k_SA", "s_COENG", "k_RO", "s_COENG", "k_TA", "v_AA", "k_LO", "v_II">>
    @@ "chf" :> <<"k_HA", "s_COENG", "k_VO", "s_COENG", "k_RO", "k_NGO", "s_BANTOC", " ", "k_SA", "s_COENG", "k_VO", "v_II", "k_SA">>

\* the numeral scale table (its 10^12 entry is beyond TLC's integers)
KHMER_NUMBERS ==
    0 :> <<"k_SA", "v_UU", "k_NO", "s_COENG", "k_YO">>
    @@ 1 :> <<"k_MO", "v_UA", "k_YO">>
    @@ 2 :> <<"k_PO", "v_II", "k_RO">>
    @@ 3 :> <<"k_BA", "v_II">>
    @@ 4 :> <<"k_BA", "v_UA", "k_NO">>
    @@ 5 :> <<"k_BA", "s_COENG", "k_RO", "v_AA", "s_NIKAHIT">>
    @@ 6 :> <<"k_BA", "s_COENG", "k_RO", "v_AA", "s_NIKAHIT", "k_MO", "v_UA", "k_YO">>
    @@ 7 :> <<"k_BA", "s_COENG", "k_RO", "v_AA", "s_NIKAHIT", "k_PO", "v_I", "k_LO">>
    @@ 8 :> <<"k_BA", "s_COENG", "k_RO", "v_AA", "s_NIKAHIT", "k_BA", "v_II">>
    @@ 9 :> <<"k_BA", "s_COENG", "k_RO", "v_AA", "s_NIKAHIT", "k_BA", "v_UA", "k_NO">>
    @@ 10 :> <<"k_DA", "k_BA", "s_BANTOC">>
    @@ 11 :> <<"k_DA", "k_BA", "s_BANTOC", " ", "k_MO", "v_UA", "k_YO">>
    @@ 12 :> <<"k_DA", "k_BA", "s_BANTOC", " ", "k_PO", "v_II", "k_RO">>
    @@ 13 :> <<"k_DA", "k_BA", "s_BANTOC", " ", "k_BA", "v_II">>
    @@ 14 :> <<"k_DA", "k_BA", "s_BANTOC", " ", "k_BA", "v_UA", "k_NO">>
    @@ 15 :> <<"k_DA", "k_BA", "s_BANTOC", " ", "k_BA", "s_COENG", "k_RO", "v_AA", "s_NIKAHIT">>
    @@ 16 :> <<"k_DA", "k_BA", "s_BANTOC", " ", "k_BA", "s_COENG", "k_RO", "v_AA", "s_NIKAHIT", "k_MO", "v_UA", "k_YO">>
    @@ 17 :> <<"k_DA", "k_BA", "s_BANTOC", " ", "k_BA", "s_COENG", "k_RO", "v_AA", "s_NIKAHIT", "k_PO", "v_I", "k_LO">>
    @@ 18 :> <<"k_DA", "k_BA", "s_BANTOC", " ", "k_BA", "s_COENG", "k_RO", "v_AA", "s_NIKAHIT", "k_BA", "v_II">>
    @@ 19 :> <<"k_DA", "k_BA", "s_BANTOC", " ", "k_BA", "s_COENG", "k_RO", "v_AA", "s_NIKAHIT", "k_BA", "v_UA", "k_NO">>
    @@ 20 :> <<"k_MO", "s_COENG", "k_PHO", "v_AI">>
    @@ 30 :> <<"k_SA", "v_AA", "k_MO", "k_SA", "v_I", "k_BA">>
    @@ 40 :> <<"k_SA", "v_AE", "k_SA", "v_I", "k_BA">>
    @@ 50 :> <<"k_HA", "v_AA", "k_SA", "v_I", "k_BA">>
    @@ 60 :> <<"k_HA", "v_U", "k_KA", "k_SA", "v_I", "k_BA">>
    @@ 70 :> <<"k_CA", "v_I", "k_TA", "k_SA", "v_I", "k_BA">>
    @@ 80 :> <<"k_BA", "s_MUUSIKATOAN", "v_AE", "k_TA", "k_SA", "v_I", "k_BA">>
    @@ 90 :> <<"k_KA", "v_AU", "k_SA", "v_I", "k_BA">>
    @@ 100 :> <<"k_RO", "k_YO">>
    @@ 1000 :> <<"k_PO", "v_AA", "k_NO", "s_BANTOC">>
    @@ 10000 :> <<"k_MO", "s_MUUSIKATOAN", "v_YY", "k_NO">>
    @@ 100000 :> <<"k_SA", "v_AE", "k_NO">>
    @@ 1000000 :> <<"k_LO", "v_AA", "k_NO">>
    @@ 10000000 :> <<"k_KA", "v_OO", "k_DA", "v_I">>
    @@ 1000000000 :> <<"k_BA", "s_TRIISAP", "v_II", "k_LO", "v_AA", "k_NO">>

\* unit keyword -> unit name
MEASURE_UNITS ==
    <<"m", "e", "t", "e", "r">> :> <<"k_MO", "s_MUUSIKATOAN", "v_AE", "k_TA", "s_COENG", "k_RO">>
    @@ <<"k", "m">> :> <<"k_KO", "v_II", "k_LA", "v_UU", " ", "k_MO", "s_MUUSIKATOAN", "v_AE", "k_TA", "s_COENG", "k_RO">>
    @@ <<"k", "i", "l", "o", "m", "e", "t", "e", "r">> :> <<"k_KO", "v_II", "k_LA", "v_UU", " ", "k_MO", "s_MUUSIKATOAN", "v_AE", "k_TA", "s_COENG", "k_RO">>
    @@ <<"g", "r", "a", "m">> :> <<"k_KA", "s_COENG", "k_RO", "v_AA", "k_MO">>
    @@ <<"k", "g">> :> <<"k_KO", "v_II", "k_LA", "v_UU", " ", "k_KA", "s_COENG", "k_RO", "v_AA", "k_MO">>
    @@ <<"k", "i", "l", "o", "g", "r", "a", "m">> :> <<"k_KO", "v_II", "k_LA", "v_UU", " ", "k_KA", "s_COENG", "k_RO", "v_AA", "k_MO">>
    @@ <<"l", "i", "t", "e", "r">> :> <<"k_LO", "v_II", "k_TA", "s_COENG", "k_RO">>
    @@ <<"s", "e", "c", "o", "n", "d">> :> <<"k_VO", "v_I", "k_NO", "v_AA", "k_TO", "v_II">>
    @@ <<"m", "i", "n", "u", "t", "e">> :> <<"k_NO", "v_AA", "k_TO", "v_II">>
    @@ <<"h", "o", "u", "r">> :> <<"k_MO", "s_MUUSIKATOAN", "v_OO", "k_NGO">>
    @@ <<"d", "a", "y">> :> <<"k_THA", "s_COENG", "k_NGO", "v_AI">>
    @@ <<"w", "e", "e", "k">> :> <<"k_SA", "k_BA", "s_COENG", "k_DA", "v_AA", "k_HA", "s_TOANDAKHIAT">>
    @@ <<"m", "o", "n", "t", "h">> :> <<"k_KHA", "v_AE">>
    @@ <<"y", "e", "a", "r">> :> <<"k_CHA", "s_COENG", "k_NO", "v_AA", "s_NIKAHIT">>
    @@ <<"p", "e", "r", "c", "e", "n", "t">> :> <<"k_PHO", "v_AA", "k_KO", "k_RO", "k_YO">>
    @@ <<"%">> :> <<"k_PHO", "v_AA", "k_KO", "k_RO", "k_YO">>

\* emoticon -> words, in the order of the dict (str.replace is applied in this order)
EMOTICONS_MAP ==
    <<<<<<":", ")">>, <<"k_MO", "v_U", "k_KHA", " ", "k_NYO", "k_NYO", "v_Y", "k_MO">>>>,
      <<<<":", "-", ")">>, <<"k_MO", "v_U", "k_KHA", " ", "k_NYO", "k_NYO", "v_Y", "k_MO">>>>,
      <<<<"=", ")">>, <<"k_MO", "v_U", "k_KHA", " ", "k_NYO", "k_NYO", "v_Y", "k_MO">>>>,
      <<<<":", "(">>, <<"k_MO", "v_U", "k_KHA", " ", "k_KA", "s_COENG", "k_RO", "v_IE", "k_MO">>>>,
      <<<<":", "-", "(">>, <<"k_MO", "v_U", "k_KHA", " ", "k_KA", "s_COENG", "k_RO", "v_IE", "k_MO">>>>,
      <<<<":", "'", "(">>, <<"k_MO", "v_U", "k_KHA", " ", "k_YO", "s_NIKAHIT">>>>,
      <<<<":", "'", ")">>, <<"k_MO", "v_U", "k_KHA", " ", "k_YO", "s_NIKAHIT", " ", "k_SA", "v_OE", "k_CA">>>>,
      <<<<";", "-", ")">>, <<"k_MO", "v_U", "k_KHA", " ", "k_MO", "v_I", "k_CA", " ", "k_PHO", "s_COENG", "k_NO", "v_AE", "k_KA">>>>,
      <<<<":", "-", "P">>, <<"k_MO", "v_U", "k_KHA", " ", "k_NYO", "k_NYO", "v_Y", "k_MO", " ", "k_LO", "v_IE", "k_NO", " ", "k_QA", "k_NNO", "s_COENG", "k_DA", "v_AA", "k_TA">>>>,
      <<<<":", "-", "D">>, <<"k_MO", "v_U", "k_KHA", " ", "k_SA", "v_OE", "k_CA">>>>,
      <<<<":", "-", "O">>, <<"k_MO", "v_U", "k_KHA", " ", "k_RO", "k_NO", "s_COENG", "k_THO", "k_TA", "s_BANTOC">>>>,
      <<<<">", ":", "-", ")">>, <<"k_MO", "v_U", "k_KHA", " ", "k_QA", "v_AA", "k_KA", "s_COENG", "k_RO", "k_KA", "s_BANTOC">>>>,
      <<<<":", "-", "@">>, <<"k_MO", "v_U", "k_KHA", " ", "k_KHA", "v_Y", "k_NGO">>>>,
      <<<<"WHITE_FROWNING_FACE">>, <<"k_MO", "v_U", "k_KHA", " ", "k_KA", "s_COENG", "k_RO", "k_MO", "v_UU", "k_VO">>>>,
      <<<<"WHITE_SMILING_FACE">>, <<"k_MO", "v_U", "k_KHA", " ", "k_NYO", "k_NYO", "v_Y", "k_MO">>>>,
      <<<<"BLACK_SMILING_FACE">>, <<"k_MO", "v_U", "k_KHA", " ", "k_NYO", "k_NYO", "v_Y", "k_MO">>>>>>

\* Khmer digit -> ASCII digit
KHMER_TO_ARABIC ==
    "d_ZERO" :> "0"
    @@ "d_ONE" :> "1"
    @@ "d_TWO" :> "2"
    @@ "d_THREE" :> "3"
    @@ "d_FOUR" :> "4"
    @@ "d_FIVE" :> "5"
    @@ "d_SIX" :> "6"
    @@ "d_SEVEN" :> "7"
    @@ "d_EIGHT" :> "8"
    @@ "d_NINE" :> "9"

\* the negative marker
W_MINUS == <<"k_DA", "k_KA">>

\* the word for a leading zero of a fractional part
W_ZERO == <<"k_SA", "v_UU", "k_NO", "s_COENG", "k_YO">>

\* the decimal point
W_POINT == <<"k_KA", "s_COENG", "k_BA", "v_IE", "k_SA">>

\* the fraction bar
W_OVER == <<"k_LO", "v_OE">>

\* the word before a month name
W_MONTH == <<"k_KHA", "v_AE">>

\* the word before a year
W_YEAR == <<"k_CHA", "s_COENG", "k_NO", "v_AA", "s_NIKAHIT">>

\* the word before the hours
W_HOUR == <<"k_MO", "s_MUUSIKATOAN", "v_OO", "k_NGO">>

\* the word after the minutes
W_MINUTE == <<"k_NO", "v_AA", "k_TO", "v_II">>

\* the word after the seconds
W_SECOND == <<"k_VO", "v_I", "k_NO", "v_AA", "k_TO", "v_II">>

\* period of the day, 5 <= hours < 12
W_MORNING == <<"k_PO", "v_E", "k_LO", "k_PO", "s_COENG", "k_RO", "v_Y", "k_KA">>

\* period of the day, 12 <= hours < 17
W_AFTERNOON == <<"k_PO", "v_E", "k_LO", "k_RO", "k_SA", "v_IE", "k_LO">>

\* period of the day, 17 <= hours < 21
W_EVENING == <<"k_LO", "s_COENG", "k_NGO", "v_AA", "k_CA">>

\* period of the day, otherwise
W_NIGHT == <<"k_YO", "k_BA", "s_BANTOC">>

\* the currency word of the riel pattern
W_RIEL == <<"k_RO", "v_IE", "k_LO">>

\* the pause between telephone digit groups
W_SIL == <<"s", "i", "l">>

\* the @ of an e-mail address
W_AT == <<"k_QA", "s_TRIISAP", "v_AE", "k_TA">>

\* the dot of a domain
W_DOT == <<"k_DA", "k_TA", "s_BANTOC">>

\* what replaces 'www.' in a URL
W_WWW == <<"k_DA", "v_AA", "k_BA", "s_BANTOC", "k_BA", "s_TRIISAP", "k_LO", "k_YO", "v_UU", " ", "k_DA", "v_AA", "k_BA", "s_BANTOC", "k_BA", "s_TRIISAP", "k_LO", "k_YO", "v_UU", " ", "k_DA", "v_AA", "k_BA", "s_BANTOC", "k_BA", "s_TRIISAP", "k_LO", "k_YO", "v_UU", " ", "k_DA", "k_TA", "s_BANTOC", " ">>

\* the suffix of a spelled Latin letter
W_LETTER_EN == <<"_", "l", "e", "t", "t", "e", "r", "-", "e", "n">>

\* the words replace_no_year_date looks for around a candidate date
DATE_WORDS ==
    {<<"d", "a", "t", "e">>, <<"n", "g", "l_A_GRAVE", "y">>, <<"d", "a", "y">>,
     <<"t", "h", "l_A_ACUTE", "n", "g">>, <<"m", "o", "n", "t", "h">>}

\* the top-level domains replace_email keeps unspelled
KEPT_DOMAINS ==
    {<<"c", "o", "m">>, <<"o", "r", "g">>, <<"n", "e", "t">>, <<"e", "d", "u">>}

SP == <<" ">>

----------------------------------------------------------------------------
(* Numbers.                                                                *)

\* int() of one decimal digit
DigitVal ==
    "0" :> 0 @@ "1" :> 1 @@ "2" :> 2 @@ "3" :> 3 @@ "4" :> 4
    @@ "5" :> 5 @@ "6" :> 6 @@ "7" :> 7 @@ "8" :> 8 @@ "9" :> 9
    @@ "d_ZERO" :> 0 @@ "d_ONE" :> 1 @@ "d_TWO" :> 2 @@ "d_THREE" :> 3
    @@ "d_FOUR" :> 4 @@ "d_FIVE" :> 5 @@ "d_SIX" :> 6 @@ "d_SEVEN" :> 7
    @@ "d_EIGHT" :> 8 @@ "d_NINE" :> 9

\* int(s) succeeds: s is a non-empty string of decimal digits
IsInt(s) == s # <<>> /\ \A i \in 1..Len(s) : s[i] \in Digit

RECURSIVE PyInt(_)
\* int(s) for a string of decimal digits
PyInt(s) ==
    IF s = <<>> THEN 0
    ELSE PyInt(SubSeq(s, 1, Len(s) - 1)) * 10 + DigitVal[s[Len(s)]]

DigitChar == <<"0", "1", "2", "3", "4", "5", "6", "7", "8", "9">>

RECURSIVE PyStrNat(_)
PyStrNat(n) ==
    IF n < 10 THEN <<DigitChar[n + 1]>>
    ELSE PyStrNat(n \div 10) \o <<DigitChar[(n % 10) + 1]>>

\* str(num)
PyStr(num) == IF num < 0 THEN <<"-">> \o PyStrNat(-num) ELSE PyStrNat(num)

\* khmer_digit_to_arabic: each Khmer digit is replaced by its ASCII digit
khmer_digit_to_arabic(s) ==
    [i \in 1..Len(s) |->
        IF s[i] \in DOMAIN KHMER_TO_ARABIC THEN KHMER_TO_ARABIC[s[i]] ELSE s[i]]

RECURSIVE number_to_khmer_words(_, _)
RECURSIVE ScaleWords(_, _, _)

\* one scale block of number_to_khmer_words: scale <= num < 10 * scale
ScaleWords(num, scale, use_testdata) ==
    LET quotient == num \div scale
        remainder == num % scale
    IN  IF remainder = 0
        THEN number_to_khmer_words(quotient, use_testdata) \o SP \o KHMER_NUMBERS[scale]
        ELSE number_to_khmer_words(quotient, use_testdata) \o SP \o KHMER_NUMBERS[scale]
             \o SP \o number_to_khmer_words(remainder, use_testdata)

number_to_khmer_words(num, use_testdata) ==
    IF use_testdata /\ num \in DOMAIN CARDINAL_TESTDATA THEN CARDINAL_TESTDATA[num]
    ELSE IF num < 0 THEN W_MINUS \o SP \o number_to_khmer_words(-num, use_testdata)
    ELSE IF num \in DOMAIN KHMER_NUMBERS THEN KHMER_NUMBERS[num]
    ELSE IF 21 <= num /\ num < 100
    THEN LET tens == (num \div 10) * 10
             ones == num % 10
         IN  IF ones = 0 THEN KHMER_NUMBERS[tens]
             ELSE KHMER_NUMBERS[tens] \o SP \o KHMER_NUMBERS[ones]
    ELSE IF 100 <= num /\ num < 1000 THEN ScaleWords(num, 100, use_testdata)
    ELSE IF 1000 <= num /\ num < 10000 THEN ScaleWords(num, 1000, use_testdata)
    ELSE IF 10000 <= num /\ num < 100000 THEN ScaleWords(num, 10000, use_testdata)
    ELSE IF 100000 <= num /\ num < 1000000 THEN ScaleWords(num, 100000, use_testdata)
    ELSE IF 1000000 <= num /\ num < 10000000 THEN ScaleWords(num, 1000000, use_testdata)
    ELSE PyStr(num)

\* digits_to_khmer_words
digits_to_khmer_words(digits0) ==
    LET digits == khmer_digit_to_arabic(digits0)
    IN  IF digits \in DOMAIN DIGIT_TESTDATA THEN DIGIT_TESTDATA[digits]
        ELSE Join(SP, [i \in 1..Len(digits) |->
                          IF digits[i] \in Digit
                          THEN KHMER_NUMBERS[DigitVal[digits[i]]]
                          ELSE <<digits[i]>>])

RECURSIVE LeadingZeros(_)
\* the number of leading '0' characters
LeadingZeros(s) ==
    IF s # <<>> /\ Head(s) = "0" THEN 1 + LeadingZeros(Tail(s)) ELSE 0

\* _normalize_fractional_part
normalize_fractional_part(fractional_part) ==
    LET leading_zeros_count == LeadingZeros(fractional_part)
        zeros == [i \in 1..leading_zeros_count |-> W_ZERO]
        rest_part == Slice(fractional_part, leading_zeros_count, Len(fractional_part))
    IN  Join(SP, IF rest_part # <<>>
                 THEN Append(zeros, number_to_khmer_words(PyInt(rest_part), TRUE))
                 ELSE zeros)

----------------------------------------------------------------------------
(* The stages of the pipeline, each a function from text to text.          *)

AnyDigit == Chr(Digit)

\* [-.\s]
PhoneSep == Chr({"-", "."} \cup Space)

\* [/-]
DateSep == Chr({"/", "-"})

\* \b[\d០-៩]+\b
cardinal_pattern == Cat(<<WordBoundary, Plus(AnyDigit), WordBoundary>>)

\* replace_number of normalize_cardinal; int() raising ValueError returns the match
replace_number(s, m) ==
    LET num_str == khmer_digit_to_arabic(Group0(s, m))
    IN  IF IsInt(num_str) THEN number_to_khmer_words(PyInt(num_str), TRUE) ELSE num_str

\* normalize_cardinal
normalize_cardinal(s) ==
    LET ms == FindAll(cardinal_pattern, s)
    IN  Sub(s, ms, [i \in 1..Len(ms) |-> replace_number(s, ms[i])])

\* \b[\d០-៩]{2,}\b
digit_pattern == Cat(<<WordBoundary, RepFrom(AnyDigit, 2), WordBoundary>>)

\* replace_digits of normalize_digit
replace_digits(s, m) == digits_to_khmer_words(Group0(s, m))

\* normalize_digit
normalize_digit(s) ==
    LET ms == FindAll(digit_pattern, s)
    IN  Sub(s, ms, [i \in 1..Len(ms) |-> replace_digits(s, ms[i])])

\* -?\d+[.,]\d+
decimal_pattern == Cat(<<Opt(Lit("-")), Plus(AnyDigit), Chr({".", ","}), Plus(AnyDigit)>>)

RECURSIVE IndexOf(_, _, _)
\* s.find(c) from offset p (c occurs in s)
IndexOf(s, c, p) == IF s[p + 1] = c THEN p ELSE IndexOf(s, c, p + 1)

\* replace_decimal of normalize_decimal
replace_decimal(s, m) ==
    LET full_match == Group0(s, m)
        is_negative == full_match # <<>> /\ Head(full_match) = "-"
        number_part == IF is_negative THEN Tail(full_match) ELSE full_match
        sep == IF \E i \in 1..Len(number_part) : number_part[i] = "." THEN "." ELSE ","
        at == IndexOf(number_part, sep, 0)
        integer_part == Slice(number_part, 0, at)
        fractional_part == Slice(number_part, at + 1, Len(number_part))
        integer_khmer == IF integer_part # <<>>
                         THEN number_to_khmer_words(PyInt(integer_part), TRUE)
                         ELSE W_ZERO
        fractional_khmer == IF fractional_part # <<>>
                            THEN normalize_fractional_part(fractional_part) ELSE <<>>
    IN  (IF is_negative THEN W_MINUS \o SP ELSE <<>>) \o integer_khmer
        \o (IF fractional_khmer # <<>> THEN SP \o W_POINT \o SP \o fractional_khmer
            ELSE <<>>)

\* normalize_decimal
normalize_decimal(s) ==
    LET ms == FindAll(decimal_pattern, s)
    IN  Sub(s, ms, [i \in 1..Len(ms) |-> replace_decimal(s, ms[i])])

\* (\d{1,2}):(\d{2})(?::(\d{2}))?
time_pattern ==
    Cat(<<Grp(1, Rep(AnyDigit, 1, 2)), Lit(":"), Grp(2, Rep(AnyDigit, 2, 2)),
          Opt(Cat(<<Lit(":"), Grp(3, Rep(AnyDigit, 2, 2))>>))>>)

\* replace_time of normalize_time
replace_time(s, m) ==
    LET hours == PyInt(Group(s, m, 1))
        minutes == IF Group(s, m, 2) # <<>> THEN PyInt(Group(s, m, 2)) ELSE 0
        has_seconds == HasGroup(m, 3)
        seconds == IF has_seconds THEN PyInt(Group(s, m, 3)) ELSE 0
    IN  W_HOUR \o SP \o number_to_khmer_words(hours, TRUE)
        \o (IF minutes > 0
            THEN SP \o number_to_khmer_words(minutes, TRUE) \o SP \o W_MINUTE ELSE <<>>)
        \o (IF has_seconds /\ seconds > 0
            THEN SP \o number_to_khmer_words(seconds, TRUE) \o SP \o W_SECOND ELSE <<>>)
        \o (IF 5 <= hours /\ hours < 12 THEN SP \o W_MORNING
            ELSE IF 12 <= hours /\ hours < 17 THEN SP \o W_AFTERNOON
            ELSE IF 17 <= hours /\ hours < 21 THEN SP \o W_EVENING
            ELSE IF 21 <= hours \/ hours < 5 THEN SP \o W_NIGHT
            ELSE <<>>)

\* normalize_time
normalize_time(s) ==
    LET ms == FindAll(time_pattern, s)
    IN  Sub(s, ms, [i \in 1..Len(ms) |-> replace_time(s, ms[i])])

\* \d+(?:\.\d+)?
amount_pattern == Cat(<<Plus(AnyDigit), Opt(Cat(<<Lit("."), Plus(AnyDigit)>>))>>)

\* \$(\d+(?:\.\d+)?)
money_pattern1 == Cat(<<Lit("$"), Grp(1, amount_pattern)>>)

\* (\d+(?:\.\d+)?)\s*រៀល
money_pattern2 == Cat(<<Grp(1, amount_pattern), Star(Chr(Space)), Str(W_RIEL)>>)

\* replace_money_dollar / replace_money_riel, with the currency's name
replace_money(amount, currency) ==
    IF \E i \in 1..Len(amount) : amount[i] = "."
    THEN LET at == IndexOf(amount, ".", 0)
             integer_part == Slice(amount, 0, at)
             fractional_part == Slice(amount, at + 1, Len(amount))
         IN  number_to_khmer_words(PyInt(integer_part), TRUE) \o SP \o W_POINT \o SP
             \o normalize_fractional_part(fractional_part) \o SP \o CURRENCY_NAMES[currency]
    ELSE number_to_khmer_words(PyInt(amount), TRUE) \o SP \o CURRENCY_NAMES[currency]

\* replace_money_dollar of normalize_money
replace_money_dollar(s, m) == replace_money(Group(s, m, 1), "usd")

\* replace_money_riel of normalize_money
replace_money_riel(s, m) == replace_money(Group(s, m, 1), "khr")

\* the first re.sub of normalize_money
money_dollar(s) ==
    LET ms == FindAll(money_pattern1, s)
    IN  Sub(s, ms, [i \in 1..Len(ms) |-> replace_money_dollar(s, ms[i])])

\* the second re.sub of normalize_money
money_riel(s) ==
    LET ms == FindAll(money_pattern2, s)
    IN  Sub(s, ms, [i \in 1..Len(ms) |-> replace_money_riel(s, ms[i])])

\* normalize_money
normalize_money(s) == money_riel(money_dollar(s))

\* \b(?:0\d{2}[-.\s]?\d{3}[-.\s]?\d{3,4}
\*     |\+?\d{1,3}[-.\s]?\d{3,4}[-.\s]?\d{3,4}[-.\s]?\d{3,4})\b
phone_pattern ==
    Cat(<<WordBoundary,
          Alt(<<Cat(<<Lit("0"), Rep(AnyDigit, 2, 2), Opt(PhoneSep), Rep(AnyDigit, 3, 3),
                      Opt(PhoneSep), Rep(AnyDigit, 3, 4)>>),
                Cat(<<Opt(Lit("+")), Rep(AnyDigit, 1, 3), Opt(PhoneSep),
                      Rep(AnyDigit, 3, 4), Opt(PhoneSep), Rep(AnyDigit, 3, 4),
                      Opt(PhoneSep), Rep(AnyDigit, 3, 4)>>)>>),
          WordBoundary>>)

\* re.sub(r'[-.\s]', '', phone_str)
PhoneDigits(phone_str) == SelectSeq(phone_str, LAMBDA c : c \notin ({"-", "."} \cup Space))

RECURSIVE PhoneWords(_, _)
\* the while loop of replace_phone, from index i
PhoneWords(digits, i) ==
    IF i >= Len(digits) THEN <<>>
    ELSE LET group_size == IF Len(digits) - i >= 6 THEN 3 ELSE Min(4, Len(digits) - i)
             group == Slice(digits, i, i + group_size)
         IN  (IF i > 0 THEN <<W_SIL>> ELSE <<>>)
             \o [k \in 1..Len(group) |-> KHMER_NUMBERS[DigitVal[group[k]]]]
             \o PhoneWords(digits, i + group_size)

\* replace_phone of normalize_telephone
replace_phone(s, m) == Join(SP, PhoneWords(PhoneDigits(Group0(s, m)), 0))

\* int(digit) raises ValueError in replace_phone: a matched number keeps a
\* character that is no digit (the '+' the pattern allows in front)
phone_raises(s, ms) == \E i \in 1..Len(ms) : ~IsInt(PhoneDigits(Group0(s, ms[i])))

\* normalize_telephone raises ValueError
telephone_raises(s) == phone_raises(s, FindAll(phone_pattern, s))

\* normalize_telephone (when it does not raise)
normalize_telephone(s) ==
    LET ms == FindAll(phone_pattern, s)
    IN  Sub(s, ms, [i \in 1..Len(ms) |-> replace_phone(s, ms[i])])

\* re.IGNORECASE on a literal keyword: each letter matches in both cases
StrI(s) ==
    Cat([i \in 1..Len(s) |->
            Chr({s[i]} \cup {u \in AsciiUpper : LowerOf[u] = s[i]})])

\* the unit alternatives of measure_pattern, in the order of the pattern
MEASURE_KEYWORDS ==
    <<<<"k", "m">>, <<"k", "g">>, <<"m">>, <<"g">>, <<"l">>,
      <<"l", "i", "t", "e", "r">>, <<"m", "e", "t", "e", "r">>, <<"g", "r", "a", "m">>,
      <<"k", "i", "l", "o", "g", "r", "a", "m">>,
      <<"k", "i", "l", "o", "m", "e", "t", "e", "r">>,
      <<"p", "e", "r", "c", "e", "n", "t">>, <<"%">>>>

\* (\d+)\s*(km|kg|m|g|l|liter|meter|gram|kilogram|kilometer|percent|%), IGNORECASE
measure_pattern ==
    Cat(<<Grp(1, Plus(AnyDigit)), Star(Chr(Space)),
          Grp(2, Alt([i \in 1..Len(MEASURE_KEYWORDS) |-> StrI(MEASURE_KEYWORDS[i])]))>>)

\* replace_measure of normalize_measure
replace_measure(s, m) ==
    LET unit == Lower(Group(s, m, 2))
    IN  number_to_khmer_words(PyInt(Group(s, m, 1)), TRUE) \o SP
        \o (IF unit \in DOMAIN MEASURE_UNITS THEN MEASURE_UNITS[unit] ELSE unit)

\* normalize_measure
normalize_measure(s) ==
    LET ms == FindAll(measure_pattern, s)
    IN  Sub(s, ms, [i \in 1..Len(ms) |-> replace_measure(s, ms[i])])

RECURSIVE SplitFrom(_, _, _)
\* s.split(c), s scanned from offset p
SplitFrom(s, c, p) ==
    IF \E i \in (p + 1)..Len(s) : s[i] = c
    THEN LET at == IndexOf(s, c, p)
         IN  <<Slice(s, p, at)>> \o SplitFrom(s, c, at + 1)
    ELSE <<Slice(s, p, Len(s))>>

Split(s, c) == SplitFrom(s, c, 0)

\* (\w+(?:[._]\w+)*)@([\w.-]+)
email_pattern ==
    Cat(<<Grp(1, Cat(<<Plus(Chr(WordChar)),
                       Star(Cat(<<Chr({".", "_"}), Plus(Chr(WordChar))>>))>>)),
          Lit("@"),
          Grp(2, Plus(Chr(WordChar \cup {".", "-"})))>>)

\* one character of the user name, as replace_email spells it
SpellUserChar(c) ==
    IF c \in Alpha THEN <<LowerChar(c)>> \o W_LETTER_EN
    ELSE IF c \in Digit THEN number_to_khmer_words(DigitVal[c], TRUE)
    ELSE <<c>>

\* one part of the domain, as replace_email spells it, followed by the dot word
SpellDomainPart(part) ==
    (IF part \in KEPT_DOMAINS THEN <<part>>
     ELSE [i \in 1..Len(part) |->
              IF part[i] \in Alpha THEN <<LowerChar(part[i])>> \o W_LETTER_EN
              ELSE <<part[i]>>])
    \o <<W_DOT>>

\* replace_email of normalize_electronic
replace_email(s, m) ==
    LET username == Group(s, m, 1)
        domain_parts == Split(Group(s, m, 2), ".")
        username_khmer == [i \in 1..Len(username) |-> SpellUserChar(username[i])]
        domain_khmer == Concat([i \in 1..Len(domain_parts) |->
                                   SpellDomainPart(domain_parts[i])])
    IN  Join(SP, username_khmer) \o SP \o W_AT \o SP
        \o Join(SP, SubSeq(domain_khmer, 1, Len(domain_khmer) - 1))

\* https?://[\w.-]+
url_pattern ==
    Cat(<<Str(<<"h", "t", "t", "p">>), Opt(Lit("s")), Str(<<":", "/", "/">>),
          Plus(Chr(WordChar \cup {".", "-"}))>>)

\* replace_url of normalize_electronic
replace_url(s, m) == Replace(Group0(s, m), <<"w", "w", "w", ".">>, W_WWW)

\* the first re.sub of normalize_electronic: e-mail addresses
electronic_email(s) ==
    LET ms == FindAll(email_pattern, s)
    IN  Sub(s, ms, [i \in 1..Len(ms) |-> replace_email(s, ms[i])])

\* the second re.sub of normalize_electronic: URLs
electronic_url(s) ==
    LET ms == FindAll(url_pattern, s)
    IN  Sub(s, ms, [i \in 1..Len(ms) |-> replace_url(s, ms[i])])

\* normalize_electronic
normalize_electronic(s) == electronic_url(electronic_email(s))

RECURSIVE ReplaceEmoticons(_, _)
\* the loop of normalize_emoticons from entry k of EMOTICONS_MAP
ReplaceEmoticons(s, k) ==
    IF k > Len(EMOTICONS_MAP) THEN s
    ELSE ReplaceEmoticons(Replace(s, EMOTICONS_MAP[k][1], EMOTICONS_MAP[k][2]), k + 1)

\* normalize_emoticons
normalize_emoticons(s) == ReplaceEmoticons(s, 1)

\* \b(\d{1,2})[/-](\d{1,2})[/-](\d{2,4})\b
year_date_pattern ==
    Cat(<<WordBoundary, Grp(1, Rep(AnyDigit, 1, 2)), DateSep, Grp(2, Rep(AnyDigit, 1, 2)),
          DateSep, Grp(3, Rep(AnyDigit, 2, 4)), WordBoundary>>)

\* replace_year_date of normalize_khmer_text
replace_year_date(s, m, normalize_dates) ==
    LET day == PyInt(Group(s, m, 1))
        month == PyInt(Group(s, m, 2))
        year == PyInt(Group(s, m, 3))
    IN  IF 1 <= month /\ month <= 12 /\ normalize_dates
        THEN number_to_khmer_words(day, TRUE) \o SP \o W_MONTH \o SP \o KHMER_MONTHS[month]
             \o SP \o W_YEAR \o SP \o number_to_khmer_words(year, TRUE)
        ELSE Group0(s, m)

\* the first pass of step 7: dates with a year
year_date_pass(s, normalize_dates) ==
    LET ms == FindAll(year_date_pattern, s)
    IN  Sub(s, ms, [i \in 1..Len(ms) |-> replace_year_date(s, ms[i], normalize_dates)])

\* (?!\s*[/-]\d)
NotBeforeDatePart == NotAhead(Cat(<<Star(Chr(Space)), DateSep, AnyDigit>>))

\* \b(-?\d+)/(\d+)\b(?!\s*[/-]\d)
fraction_pattern ==
    Cat(<<WordBoundary, Grp(1, Cat(<<Opt(Lit("-")), Plus(AnyDigit)>>)), Lit("/"),
          Grp(2, Plus(AnyDigit)), WordBoundary, NotBeforeDatePart>>)

\* replace_fraction_safe of normalize_khmer_text
replace_fraction_safe(s, m) ==
    LET numerator == Group(s, m, 1)
        denominator == Group(s, m, 2)
        is_negative == Head(numerator) = "-"
        num_val == PyInt(IF is_negative THEN Tail(numerator) ELSE numerator)
        den_val == PyInt(denominator)
    IN  (IF is_negative THEN W_MINUS \o SP ELSE <<>>)
        \o number_to_khmer_words(num_val, TRUE) \o SP \o W_OVER \o SP
        \o number_to_khmer_words(den_val, TRUE)

\* the second pass of step 7: fractions
fraction_pass(s) ==
    LET ms == FindAll(fraction_pattern, s)
    IN  Sub(s, ms, [i \in 1..Len(ms) |-> replace_fraction_safe(s, ms[i])])

\* \b(\d{1,2})[/-](\d{1,2})\b(?!\s*[/-]\d)
no_year_date_pattern ==
    Cat(<<WordBoundary, Grp(1, Rep(AnyDigit, 1, 2)), DateSep, Grp(2, Rep(AnyDigit, 1, 2)),
          WordBoundary, NotBeforeDatePart>>)

\* has_date_context of replace_no_year_date
has_date_context(s, m) ==
    LET context_before == Lower(Slice(s, Max(0, m.start - 20), m.start))
        context_after == Lower(Slice(s, m.end, Min(Len(s), m.end + 20)))
    IN  \E word \in DATE_WORDS : Contains(context_before \o context_after, word)

\* the test that opens replace_no_year_date: the fraction word occurs near the match
near_fraction_word(s, m) ==
    Contains(Slice(s, Max(0, m.start - 10), m.end + 10), W_OVER)

\* a variant of replace_no_year_date without the test `has_date_context or day > 12`
replace_no_year_date_any_day(s, m) ==
    IF near_fraction_word(s, m) THEN Group0(s, m)
    ELSE LET day == PyInt(Group(s, m, 1))
             month == PyInt(Group(s, m, 2))
         IN  IF 1 <= month /\ month <= 12 /\ 1 <= day /\ day <= 31
             THEN number_to_khmer_words(day, TRUE) \o SP \o W_MONTH \o SP
                  \o KHMER_MONTHS[month]
             ELSE Group0(s, m)

\* replace_no_year_date of normalize_khmer_text
replace_no_year_date(s, m) ==
    IF near_fraction_word(s, m) THEN Group0(s, m)
    ELSE LET day == PyInt(Group(s, m, 1))
             month == PyInt(Group(s, m, 2))
         IN  IF (1 <= month /\ month <= 12 /\ 1 <= day /\ day <= 31)
                /\ (has_date_context(s, m) \/ day > 12)
             THEN number_to_khmer_words(day, TRUE) \o SP \o W_MONTH \o SP
                  \o KHMER_MONTHS[month]
             ELSE Group0(s, m)

\* the third pass of step 7: dates without a year
no_year_date_pass(s) ==
    LET ms == FindAll(no_year_date_pattern, s)
    IN  Sub(s, ms, [i \in 1..Len(ms) |-> replace_no_year_date(s, ms[i])])

----------------------------------------------------------------------------
(* normalize_khmer_text as a process: one action per statement of its      *)
(* body, in the order of the source.                                       *)

\* calls of normalize_khmer_text in one run
MaxCalls == 2

\* switches set away from their defaults in one call
MaxSwitched == 3

\* a variant order: the decimal statement moved in front of the money statement
STAGES_decimal_before_money ==
    <<"electronic", "emoticons", "telephone", "time", "decimal", "money", "measure",
      "year_date", "fraction", "no_year_date", "cardinal">>

\* the statements of normalize_khmer_text, in source order
STAGES ==
    <<"electronic", "emoticons", "telephone", "time", "money", "measure",
      "year_date", "fraction", "no_year_date", "decimal", "cardinal">>

RECURSIVE StageIndex(_, _)
StageIndex(stage, k) == IF STAGES[k] = stage THEN k ELSE StageIndex(stage, k + 1)

\* the statement that follows `stage`
StageAfter(stage) ==
    LET k == StageIndex(stage, 1)
    IN  IF k = Len(STAGES) THEN "done" ELSE STAGES[k + 1]

\* the default values of the parameters of normalize_khmer_text
DefaultConfig ==
    [normalize_cardinals |-> TRUE, normalize_digits |-> FALSE,
     normalize_decimals |-> TRUE, normalize_fractions |-> TRUE,
     normalize_dates |-> TRUE, normalize_time_flag |-> TRUE,
     normalize_money_flag |-> TRUE, normalize_telephone_flag |-> TRUE,
     normalize_measure_flag |-> TRUE, normalize_electronic_flag |-> TRUE,
     normalize_emoticons_flag |-> TRUE]

\* every setting of the eleven switches
AllConfigs == [DOMAIN DefaultConfig -> BOOLEAN]

\* the settings that differ from the defaults in at most MaxSwitched switches
Configs ==
    {c \in AllConfigs :
        Cardinality({k \in DOMAIN DefaultConfig : c[k] # DefaultConfig[k]}) <= MaxSwitched}

\* only the cardinal stage enabled
CardinalOnly == [k \in DOMAIN DefaultConfig |-> k = "normalize_cardinals"]

\* the defaults with the fraction pass switched off
NoFractions == [DefaultConfig EXCEPT !.normalize_fractions = FALSE]

\* the guard `if normalize_dates or normalize_fractions` around step 7
Step7Enabled(c) == c.normalize_dates \/ c.normalize_fractions

\* a variant of Step that assigns `out` whether or not the switch is set
Step_ignoring_switch(stage, label, enabled, out) ==
    /\ pc = stage
    /\ pc' = StageAfter(stage)
    /\ text' = out
    /\ applied' = IF enabled
                  THEN Append(applied, [stage |-> label, in |-> text, out |-> text'])
                  ELSE applied
    /\ UNCHANGED <<input, cfg, calls, CARDINAL_TESTDATA, DIGIT_TESTDATA, seg,
                   segtext, conv, g2p, load, LEXICON>>

\* One statement `if enabled: text = out`, recorded under `label`.
Step(stage, label, enabled, out) ==
    /\ pc = stage
    /\ pc' = StageAfter(stage)
    /\ text' = IF enabled THEN out ELSE text
    /\ applied' = IF enabled
                  THEN Append(applied, [stage |-> label, in |-> text, out |-> text'])
                  ELSE applied
    /\ UNCHANGED <<input, cfg, calls, CARDINAL_TESTDATA, DIGIT_TESTDATA, seg,
                   segtext, conv, g2p, load, LEXICON>>

\* the parameters of normalize_khmer_text(t, **c) bound, before its first
\* statement
Enter(t, c) ==
    /\ pc' = STAGES[1]
    /\ input' = t
    /\ text' = t
    /\ cfg' = c
    /\ applied' = <<>>
    /\ fracSpans' = {}
    /\ dateLog' = <<>>
    /\ calls' = calls + 1
    /\ UNCHANGED results

\* entry into normalize_khmer_text(t, **c)
Begin(t, c) ==
    /\ Enter(t, c)
    /\ UNCHANGED <<CARDINAL_TESTDATA, DIGIT_TESTDATA, seg, segtext, conv, g2p, load,
                   LEXICON>>

\* a call normalize_khmer_text(t, **c)
Call(t, c) ==
    /\ pc = "idle"
    /\ Begin(t, c)

\* a further call on what the last call returned, with the same switches
Renormalize ==
    /\ pc = "done"
    /\ calls < MaxCalls
    /\ Begin(text, cfg)

Electronic ==
    /\ Step("electronic", "electronic", cfg.normalize_electronic_flag,
            normalize_electronic(text))
    /\ UNCHANGED <<fracSpans, dateLog, results>>

Emoticons ==
    /\ Step("emoticons", "emoticons", cfg.normalize_emoticons_flag,
            normalize_emoticons(text))
    /\ UNCHANGED <<fracSpans, dateLog, results>>

Telephone ==
    /\ pc = "telephone"
    /\ IF cfg.normalize_telephone_flag /\ telephone_raises(text)
       THEN /\ pc' = "raised"
            /\ UNCHANGED <<input, text, cfg, applied, calls, CARDINAL_TESTDATA,
                           DIGIT_TESTDATA, seg, segtext, conv, g2p, load, LEXICON>>
       ELSE Step("telephone", "telephone", cfg.normalize_telephone_flag,
                 normalize_telephone(text))
    /\ UNCHANGED <<fracSpans, dateLog, results>>

Time ==
    /\ Step("time", "time", cfg.normalize_time_flag, normalize_time(text))
    /\ UNCHANGED <<fracSpans, dateLog, results>>

Money ==
    /\ Step("money", "money", cfg.normalize_money_flag, normalize_money(text))
    /\ UNCHANGED <<fracSpans, dateLog, results>>

Measure ==
    /\ Step("measure", "measure", cfg.normalize_measure_flag, normalize_measure(text))
    /\ UNCHANGED <<fracSpans, dateLog, results>>

YearDate ==
    /\ Step("year_date", "year_date", Step7Enabled(cfg),
            year_date_pass(text, cfg.normalize_dates))
    /\ UNCHANGED <<fracSpans, dateLog, results>>

RECURSIVE OutSpans(_, _, _, _)

\* the spans of the output of re.sub that the replacements occupy:
\* matches ms[i..], replacements reps, `shift` the growth of the text so far
OutSpans(ms, reps, i, shift) ==
    IF i > Len(ms) THEN {}
    ELSE {<<ms[i].start + shift, ms[i].start + shift + Len(reps[i])>>}
         \cup OutSpans(ms, reps, i + 1,
                       shift + Len(reps[i]) - (ms[i].end - ms[i].start))

\* the spans of the fraction pass's output that its replacements occupy
fraction_spans(s) ==
    LET ms == FindAll(fraction_pattern, s)
    IN  OutSpans(ms, [i \in 1..Len(ms) |-> replace_fraction_safe(s, ms[i])], 1, 0)

Fraction ==
    /\ Step("fraction", "fraction", Step7Enabled(cfg) /\ cfg.normalize_fractions,
            fraction_pass(text))
    /\ fracSpans' = IF Step7Enabled(cfg) /\ cfg.normalize_fractions
                    THEN fraction_spans(text)
                    ELSE {}
    /\ UNCHANGED <<dateLog, results>>

\* what the no-year date pass did: the span of each match and what replaced it
no_year_date_log(s) ==
    LET ms == FindAll(no_year_date_pattern, s)
    IN  [i \in 1..Len(ms) |->
            [start |-> ms[i].start, end |-> ms[i].end,
             out |-> replace_no_year_date(s, ms[i])]]

NoYearDate ==
    /\ Step("no_year_date", "no_year_date", Step7Enabled(cfg) /\ cfg.normalize_dates,
            no_year_date_pass(text))
    /\ dateLog' = IF Step7Enabled(cfg) /\ cfg.normalize_dates
                  THEN no_year_date_log(text)
                  ELSE <<>>
    /\ UNCHANGED <<fracSpans, results>>

Decimal ==
    /\ Step("decimal", "decimal", cfg.normalize_decimals, normalize_decimal(text))
    /\ UNCHANGED <<fracSpans, dateLog, results>>

\* a variant of the last statement that tests normalize_digits first
FinalBranch_digits_first(c) ==
    IF c.normalize_digits THEN "digit"
    ELSE IF c.normalize_cardinals THEN "cardinal"
    ELSE "none"

\* the branch `if normalize_cardinals: ... elif normalize_digits: ...` takes
FinalBranch(c) ==
    IF c.normalize_cardinals THEN "cardinal"
    ELSE IF c.normalize_digits THEN "digit"
    ELSE "none"

\* the last statement and the return
CardinalOrDigit ==
    /\ Step("cardinal", FinalBranch(cfg), FinalBranch(cfg) # "none",
            IF FinalBranch(cfg) = "cardinal" THEN normalize_cardinal(text)
            ELSE IF FinalBranch(cfg) = "digit" THEN normalize_digit(text)
            ELSE text)
    /\ results' = Append(results, [in |-> input, out |-> text'])
    /\ UNCHANGED <<fracSpans, dateLog>>

----------------------------------------------------------------------------
(* The segmenters of khmer_word_segmentation.py.                           *)

\* a variant of the for loop that tries the shortest candidate first
ForwardTry_shortest_first(t, word_set, i, length) ==
    IF \E n \in 1..length : Slice(t, i, i + n) \in word_set
    THEN CHOOSE n \in 1..length :
            /\ Slice(t, i, i + n) \in word_set
            /\ \A k \in 1..(n - 1) : Slice(t, i, i + k) \notin word_set
    ELSE 0

RECURSIVE ForwardTry(_, _, _, _)
\* the for loop of longest_matching: the first length, from `length` down to 1,
\* whose candidate text[i:i+length] is in the word set; 0 when there is none
ForwardTry(t, word_set, i, length) ==
    IF length <= 0 THEN 0
    ELSE IF Slice(t, i, i + length) \in word_set THEN length
    ELSE ForwardTry(t, word_set, i, length - 1)

RECURSIVE ForwardFrom_skipping(_, _, _, _)
\* a variant of the while loop that steps over an unmatched character without
\* emitting it
ForwardFrom_skipping(t, word_set, max_word_len, i) ==
    IF i >= Len(t) THEN <<>>
    ELSE LET max_try == Min(max_word_len, Len(t) - i)
             length == ForwardTry(t, word_set, i, max_try)
         IN  IF length > 0
             THEN <<Slice(t, i, i + length)>>
                  \o ForwardFrom_skipping(t, word_set, max_word_len, i + length)
             ELSE ForwardFrom_skipping(t, word_set, max_word_len, i + 1)

RECURSIVE ForwardFrom(_, _, _, _)
\* the while loop of longest_matching from cursor i
ForwardFrom(t, word_set, max_word_len, i) ==
    IF i >= Len(t) THEN <<>>
    ELSE LET max_try == Min(max_word_len, Len(t) - i)
             length == ForwardTry(t, word_set, i, max_try)
         IN  IF length > 0
             THEN <<Slice(t, i, i + length)>>
                  \o ForwardFrom(t, word_set, max_word_len, i + length)
             ELSE <<<<t[i + 1]>>>> \o ForwardFrom(t, word_set, max_word_len, i + 1)

longest_matching(t, word_set, max_word_len) ==
    IF t = <<>> THEN <<>> ELSE ForwardFrom(t, word_set, max_word_len, 0)

\* a variant of the for loop that tries the shortest candidate first
ReverseTry_shortest_first(t, word_set, i, length) ==
    IF \E n \in 1..length : Slice(t, i - n, i) \in word_set
    THEN CHOOSE n \in 1..length :
            /\ Slice(t, i - n, i) \in word_set
            /\ \A k \in 1..(n - 1) : Slice(t, i - k, i) \notin word_set
    ELSE 0

RECURSIVE ReverseTry(_, _, _, _)
\* the for loop of reverse_longest_matching, candidate text[i-length:i]
ReverseTry(t, word_set, i, length) ==
    IF length <= 0 THEN 0
    ELSE IF Slice(t, i - length, i) \in word_set THEN length
    ELSE ReverseTry(t, word_set, i, length - 1)

RECURSIVE ReverseFrom(_, _, _, _)
\* the while loop of reverse_longest_matching from cursor i; each token is
\* inserted in front of the ones found before it
ReverseFrom(t, word_set, max_word_len, i) ==
    IF i <= 0 THEN <<>>
    ELSE LET max_try == Min(max_word_len, i)
             length == ReverseTry(t, word_set, i, max_try)
         IN  IF length > 0
             THEN ReverseFrom(t, word_set, max_word_len, i - length)
                  \o <<Slice(t, i - length, i)>>
             ELSE ReverseFrom(t, word_set, max_word_len, i - 1) \o <<<<t[i]>>>>

reverse_longest_matching(t, word_set, max_word_len) ==
    IF t = <<>> THEN <<>> ELSE ReverseFrom(t, word_set, max_word_len, Len(t))

RECURSIVE SumLen(_)
\* sum(len(w) for w in words)
SumLen(words) == IF words = <<>> THEN 0 ELSE Len(Head(words)) + SumLen(Tail(words))

\* a variant that returns the reverse segmentation when the counts tie
bidirectional_matching_reverse_on_tie(t, word_set, max_word_len) ==
    IF t = <<>> THEN <<>>
    ELSE LET forward == longest_matching(t, word_set, max_word_len)
             reverse == reverse_longest_matching(t, word_set, max_word_len)
         IN  IF forward = reverse THEN forward
             ELSE IF Len(forward) < Len(reverse) THEN forward
             ELSE reverse

\* a variant that prefers the segmentation with more tokens
bidirectional_matching_more_tokens(t, word_set, max_word_len) ==
    IF t = <<>> THEN <<>>
    ELSE LET forward == longest_matching(t, word_set, max_word_len)
             reverse == reverse_longest_matching(t, word_set, max_word_len)
         IN  IF forward = reverse THEN forward
             ELSE IF Len(forward) > Len(reverse) THEN forward
             ELSE reverse

bidirectional_matching(t, word_set, max_word_len) ==
    IF t = <<>> THEN <<>>
    ELSE LET forward == longest_matching(t, word_set, max_word_len)
             reverse == reverse_longest_matching(t, word_set, max_word_len)
         IN  IF forward = reverse THEN forward
             ELSE IF Len(forward) < Len(reverse) THEN forward
             ELSE IF Len(reverse) < Len(forward) THEN reverse
             \* a / n > b / n for the two averages, n = len(forward) = len(reverse)
             ELSE IF SumLen(forward) * Len(reverse) > SumLen(reverse) * Len(forward)
             THEN forward
             ELSE IF SumLen(reverse) * Len(forward) > SumLen(forward) * Len(reverse)
             THEN reverse
             ELSE forward

\* a call of one of the three segmenters on the drawn arguments
SegCall(op, result) ==
    /\ seg.op = "none"
    /\ seg' = [seg EXCEPT !.op = op, !.result = result]
    /\ UNCHANGED <<pipeline, globals, segtext, conv, g2p, load>>

Forward ==
    SegCall("forward", longest_matching(seg.text, seg.word_set, seg.max_word_len))

Reverse ==
    SegCall("reverse", reverse_longest_matching(seg.text, seg.word_set, seg.max_word_len))

Bidirectional ==
    SegCall("bidirectional",
            bidirectional_matching(seg.text, seg.word_set, seg.max_word_len))

----------------------------------------------------------------------------
(* segment_khmer_text of khmer_word_segmentation.py.                       *)

\* the word set load_word_set builds at import: the first column of the
\* lexicon file, which is also the key set of khmer.py's _LEXICON
WORD_SET == DOMAIN LEXICON

\* the greatest element of a non-empty set of integers
Greatest(S) == CHOOSE q \in S : \A r \in S : r <= q

\* the max_len load_word_set returns with the word set
MAX_WORD_LEN ==
    IF WORD_SET = {} THEN 0 ELSE Greatest({Len(word) : word \in WORD_SET})

\* str.strip()
Strip(s) ==
    IF \A i \in 1..Len(s) : s[i] \in Space THEN <<>>
    ELSE SubSeq(s, Least({i \in 1..Len(s) : s[i] \notin Space}),
                   Greatest({i \in 1..Len(s) : s[i] \notin Space}))

\* the method dispatch of segment_khmer_text; <<>> for an unknown method
SegmentWords(t, method, word_set, max_word_len) ==
    IF method = "forward" THEN longest_matching(t, word_set, max_word_len)
    ELSE IF method = "reverse" THEN reverse_longest_matching(t, word_set, max_word_len)
    ELSE IF method = "bidirectional" THEN bidirectional_matching(t, word_set, max_word_len)
    ELSE <<>>

KnownMethods == {"forward", "reverse", "bidirectional"}

\* the statements of segment_khmer_text after the defaults are filled in
SegmentWith(t, method, word_set, max_word_len) ==
    IF word_set = {} THEN [raised |-> FALSE, out |-> t]
    ELSE IF method \notin KnownMethods THEN [raised |-> TRUE, out |-> <<>>]
    ELSE [raised |-> FALSE,
          out |-> Join(SP, SegmentWords(t, method, word_set, max_word_len))]

\* segment_khmer_text(t, method, word_set, max_word_len); an argument that is
\* not given is None. `raised` stands for the ValueError.
segment_khmer_text(t, method, word_set_given, word_set, max_word_len_given, max_word_len) ==
    IF t = <<>> \/ Strip(t) = <<>> THEN [raised |-> FALSE, out |-> t]
    ELSE SegmentWith(Replace(t, <<" ">>, <<>>), method,
                     IF word_set_given THEN word_set ELSE WORD_SET,
                     IF max_word_len_given THEN max_word_len ELSE MAX_WORD_LEN)

\* a call of segment_khmer_text on the drawn arguments
SegmentKhmerText(t, method, word_set_given, word_set, max_word_len_given, max_word_len) ==
    /\ segtext.status = "none"
    /\ segtext' =
          [status |-> IF segment_khmer_text(t, method, word_set_given, word_set,
                                            max_word_len_given, max_word_len).raised
                      THEN "raised" ELSE "returned",
           text |-> t, method |-> method,
           word_set |-> word_set, word_set_given |-> word_set_given,
           max_word_len |-> max_word_len, max_word_len_given |-> max_word_len_given,
           out |-> segment_khmer_text(t, method, word_set_given, word_set,
                                      max_word_len_given, max_word_len).out]
    /\ UNCHANGED <<pipeline, globals, seg, conv, g2p, load>>

----------------------------------------------------------------------------
(* number_to_khmer_words as a process: one frame per call of the function, *)
(* the innermost call last.  A frame is at "enter" before its body runs,   *)
(* at "neg", "quotient" or "remainder" while it waits for the recursive    *)
(* call it made, and at "return" when it holds the string it returns.      *)

\* `use_testdata and num in _CARDINAL_TESTDATA`, restricted to num >= 0
ConvOverride_nonnegative(num, use_testdata) ==
    use_testdata /\ num >= 0 /\ num \in DOMAIN CARDINAL_TESTDATA

\* `use_testdata and num in _CARDINAL_TESTDATA`
ConvOverride(num, use_testdata) == use_testdata /\ num \in DOMAIN CARDINAL_TESTDATA

\* `num in KHMER_NUMBERS`, restricted to num < 100
ConvAtomic_below_hundred(num) == num \in DOMAIN KHMER_NUMBERS /\ num < 100

\* `num in KHMER_NUMBERS`
ConvAtomic(num) == num \in DOMAIN KHMER_NUMBERS

\* a variant range that reaches up to 1000
ConvTens_below_thousand(num) == 21 <= num /\ num < 1000

\* `21 <= num < 100`
ConvTens(num) == 21 <= num /\ num < 100

\* a variant with the hundreds block only
ConvScale_hundreds_only(num) == IF 100 <= num /\ num < 1000 THEN 100 ELSE 0

\* the scale of the block that handles num: hundreds ... millions; 0 when no
\* block does
ConvScale(num) ==
    IF 100 <= num /\ num < 1000 THEN 100
    ELSE IF 1000 <= num /\ num < 10000 THEN 1000
    ELSE IF 10000 <= num /\ num < 100000 THEN 10000
    ELSE IF 100000 <= num /\ num < 1000000 THEN 100000
    ELSE IF 1000000 <= num /\ num < 10000000 THEN 1000000
    ELSE 0

\* the frame of a call number_to_khmer_words(num, use_testdata)
ConvFrame(num, use_testdata) ==
    [num |-> num, use_testdata |-> use_testdata, at |-> "enter", acc |-> <<>>]

\* the innermost frame
ConvTop == conv.stack[Len(conv.stack)]

\* the stack with its innermost frame replaced by f
ConvSetTop(f) == [conv.stack EXCEPT ![Len(conv.stack)] = f]

\* the innermost frame holds the string s to return
ConvHolds(s) == ConvSetTop([ConvTop EXCEPT !.at = "return", !.acc = s])

\* the innermost frame waits at `at` for the call on num
ConvRecurse(at, acc, num) ==
    Append(ConvSetTop([ConvTop EXCEPT !.at = at, !.acc = acc]),
           ConvFrame(num, ConvTop.use_testdata))

\* the lines of the 21..99 block raise KeyError
ConvTensRaises(num) ==
    \/ (num \div 10) * 10 \notin DOMAIN KHMER_NUMBERS
    \/ (num % 10 # 0 /\ num % 10 \notin DOMAIN KHMER_NUMBERS)

\* the string the 21..99 block returns
ConvTensWords(num) ==
    IF num % 10 = 0 THEN KHMER_NUMBERS[(num \div 10) * 10]
    ELSE KHMER_NUMBERS[(num \div 10) * 10] \o SP \o KHMER_NUMBERS[num % 10]

\* a call number_to_khmer_words(n, u)
ConvCall(n, u) ==
    /\ conv.status = "none"
    /\ conv' = [status |-> "running", num |-> n, use_testdata |-> u,
                stack |-> <<ConvFrame(n, u)>>, out |-> <<>>]
    /\ UNCHANGED <<pipeline, globals, seg, segtext, g2p, load>>

\* the body of the innermost call runs up to its first recursive call or to
\* its return statement
ConvEnter ==
    /\ conv.status = "running"
    /\ ConvTop.at = "enter"
    /\ IF ConvOverride(ConvTop.num, ConvTop.use_testdata)
       THEN conv' = [conv EXCEPT !.stack = ConvHolds(CARDINAL_TESTDATA[ConvTop.num])]
       ELSE IF ConvTop.num < 0
       THEN conv' = [conv EXCEPT !.stack = ConvRecurse("neg", <<>>, -ConvTop.num)]
       ELSE IF ConvAtomic(ConvTop.num)
       THEN conv' = [conv EXCEPT !.stack = ConvHolds(KHMER_NUMBERS[ConvTop.num])]
       ELSE IF ConvTens(ConvTop.num)
       THEN IF ConvTensRaises(ConvTop.num)
            THEN conv' = [conv EXCEPT !.status = "raised"]
            ELSE conv' = [conv EXCEPT !.stack = ConvHolds(ConvTensWords(ConvTop.num))]
       ELSE IF ConvScale(ConvTop.num) # 0
       THEN conv' = [conv EXCEPT !.stack =
                        ConvRecurse("quotient", <<>>,
                                    ConvTop.num \div ConvScale(ConvTop.num))]
       ELSE conv' = [conv EXCEPT !.stack = ConvHolds(PyStr(ConvTop.num))]
    /\ UNCHANGED <<pipeline, globals, seg, segtext, g2p, load>>

\* the frame that made the innermost call
ConvCaller == conv.stack[Len(conv.stack) - 1]

\* the stack once the innermost call has returned v to its caller, the caller
\* now being at `at` with `acc`
ConvResume(at, acc) ==
    [i \in 1..(Len(conv.stack) - 1) |->
        IF i = Len(conv.stack) - 1
        THEN [conv.stack[i] EXCEPT !.at = at, !.acc = acc]
        ELSE conv.stack[i]]

\* the innermost call returns: to the caller of number_to_khmer_words, or to
\* the call that waits for it, which goes on to its next recursive call or to
\* its own return statement
ConvReturn ==
    /\ conv.status = "running"
    /\ ConvTop.at = "return"
    /\ IF Len(conv.stack) = 1
       THEN conv' = [conv EXCEPT !.status = "returned", !.stack = <<>>,
                                 !.out = ConvTop.acc]
       ELSE IF ConvCaller.at = "neg"
       THEN conv' = [conv EXCEPT !.stack =
                        ConvResume("return", W_MINUS \o SP \o ConvTop.acc)]
       ELSE IF ConvCaller.at = "quotient"
       THEN IF ConvScale(ConvCaller.num) \notin DOMAIN KHMER_NUMBERS
            THEN conv' = [conv EXCEPT !.status = "raised"]
            ELSE IF ConvCaller.num % ConvScale(ConvCaller.num) = 0
            THEN conv' = [conv EXCEPT !.stack =
                             ConvResume("return",
                                        ConvTop.acc \o SP
                                        \o KHMER_NUMBERS[ConvScale(ConvCaller.num)])]
            ELSE conv' = [conv EXCEPT !.stack =
                             Append(ConvResume("remainder",
                                               ConvTop.acc \o SP
                                               \o KHMER_NUMBERS[ConvScale(ConvCaller.num)]),
                                    ConvFrame(ConvCaller.num % ConvScale(ConvCaller.num),
                                              ConvCaller.use_testdata))]
       ELSE conv' = [conv EXCEPT !.stack =
                        ConvResume("return", ConvCaller.acc \o SP \o ConvTop.acc)]
    /\ UNCHANGED <<pipeline, globals, seg, segtext, g2p, load>>

----------------------------------------------------------------------------
(* khmer_g2p of khmer.py as a process.                                     *)

\* re.sub(r"\s+", " ", s)
CollapseWhitespace(s) ==
    LET ms == FindAll(Plus(Chr(Space)), s)
    IN  Sub(s, ms, [i \in 1..Len(ms) |-> SP])

\* a variant of the loop body that spells a token without an entry letter by
\* letter
G2pWord_by_characters(token) ==
    IF token \in DOMAIN LEXICON THEN Join(SP, LEXICON[token])
    ELSE Join(SP, [i \in 1..Len(token) |-> <<token[i]>>])

\* the body of the loop over the tokens: the phonemes of a lexicon entry
\* joined by spaces, any other token as it is
G2pWord(token) ==
    IF token \in DOMAIN LEXICON THEN Join(SP, LEXICON[token]) ELSE token

\* a variant of the loop that enters every token without an entry into the
\* lexicon, as its own pronunciation
LexiconAfterTokens_caching(lex, tokens) ==
    [token \in DOMAIN lex \cup {tokens[k] : k \in 1..Len(tokens)} |->
        IF token \in DOMAIN lex THEN lex[token] ELSE <<token>>]

\* _LEXICON after the loop over the tokens, which tests `token in _LEXICON`
\* and reads _LEXICON[token]: as before
LexiconAfterTokens(lex, tokens) == lex

\* khmer_g2p(t, auto_segment, return_word_list) up to the first statement of
\* normalize_khmer_text; is_none is set for khmer_g2p(None, ...), on which the
\* first re.sub of the normalizer raises TypeError
G2pCall(t, is_none, auto_segment, return_word_list) ==
    /\ g2p.pc = "none"
    /\ pc = "idle"
    /\ IF is_none
       THEN /\ g2p' = [g2p EXCEPT !.pc = "raised", !.is_none = TRUE,
                                  !.auto_segment = auto_segment,
                                  !.return_word_list = return_word_list]
            /\ UNCHANGED pipeline
       ELSE /\ g2p' = [g2p EXCEPT !.pc = "normalize", !.arg = t,
                                  !.auto_segment = auto_segment,
                                  !.return_word_list = return_word_list]
            /\ Enter(t, DefaultConfig)
    /\ UNCHANGED <<globals, seg, segtext, conv, load>>

\* normalize_khmer_text has returned or raised; `if auto_segment and text`
G2pSegment ==
    /\ g2p.pc = "normalize"
    /\ pc \in {"done", "raised"}
    /\ g2p' = IF pc = "raised" THEN [g2p EXCEPT !.pc = "raised"]
              ELSE [g2p EXCEPT
                      !.pc = "segmented",
                      !.text = IF g2p.auto_segment /\ text # <<>>
                               THEN segment_khmer_text(text, "bidirectional",
                                                       FALSE, {}, FALSE, 0).out
                               ELSE text]
    /\ UNCHANGED <<pipeline, globals, seg, segtext, conv, load>>

\* the whitespace clean-up, the early return on an empty text, and the loop
\* over the tokens
G2pTokens ==
    /\ g2p.pc = "segmented"
    /\ g2p' = IF Strip(CollapseWhitespace(g2p.text)) = <<>>
              THEN [g2p EXCEPT !.pc = "returned", !.out = <<>>,
                               !.out_is_list = g2p.return_word_list]
              ELSE [g2p EXCEPT
                      !.pc = "joined",
                      !.words = [k \in 1..Len(Split(Strip(CollapseWhitespace(g2p.text)), " "))
                                    |-> G2pWord(Split(Strip(CollapseWhitespace(g2p.text)), " ")[k])]]
    /\ LEXICON' = IF Strip(CollapseWhitespace(g2p.text)) = <<>> THEN LEXICON
                  ELSE LexiconAfterTokens(LEXICON,
                                          Split(Strip(CollapseWhitespace(g2p.text)), " "))
    /\ UNCHANGED <<pipeline, CARDINAL_TESTDATA, DIGIT_TESTDATA, seg, segtext, conv, load>>

\* the two return statements after the loop
G2pReturn ==
    /\ g2p.pc = "joined"
    /\ g2p' = [g2p EXCEPT !.pc = "returned",
                          !.out_is_list = g2p.return_word_list,
                          !.out = IF g2p.return_word_list THEN g2p.words
                                  ELSE Join(SP, g2p.words)]
    /\ UNCHANGED <<pipeline, globals, seg, segtext, conv, load>>

----------------------------------------------------------------------------
(* The loaders: load_lexicon of khmer.py, load_word_set of                 *)
(* khmer_word_segmentation.py and load_testdata_tsv of khmer_textnorm.py.  *)
(* A file is a sequence of lines without their line ends; a tab is "TAB".  *)

\* s.split(): the pieces of s between runs of whitespace
PySplit(s) ==
    IF Strip(s) = <<>> THEN <<>> ELSE Split(Strip(CollapseWhitespace(s)), " ")

\* `if not line or line.startswith('#'): continue`, line being stripped
SkippedLine(line) == line = <<>> \/ line[1] = "#"

\* a variant of the assignment that keeps the entry a key already has
LexiconPut_first_wins(lex, key, phones) ==
    IF key \in DOMAIN lex THEN lex ELSE (key :> phones) @@ lex

\* lex[key] = phones
LexiconPut(lex, key, phones) == (key :> phones) @@ lex

\* the body of the loop of load_lexicon on one raw line
LexiconLine(lex, raw) ==
    IF SkippedLine(Strip(raw)) \/ Len(Split(Strip(raw), "TAB")) < 2 THEN lex
    ELSE IF Strip(Split(Strip(raw), "TAB")[1]) = <<>> THEN lex
    ELSE LexiconPut(lex, Strip(Split(Strip(raw), "TAB")[1]),
                    PySplit(Split(Strip(raw), "TAB")[2]))

\* the word the loop of load_word_set adds for one raw line; <<>> for none
WordOfLine(raw) ==
    IF SkippedLine(Strip(raw)) \/ Len(Split(Strip(raw), "TAB")) < 2 THEN <<>>
    ELSE Strip(Split(Strip(raw), "TAB")[1])

\* data[data_type][input_data] = output_data on a defaultdict(dict)
TestdataPut(data, data_type, input_data, output_data) ==
    IF data_type \in DOMAIN data
    THEN [data EXCEPT ![data_type] = (input_data :> output_data) @@ data[data_type]]
    ELSE (data_type :> (input_data :> output_data)) @@ data

\* the body of the loop of load_testdata_tsv on one raw line
TestdataLine(data, raw) ==
    IF SkippedLine(Strip(raw)) \/ Len(Split(Strip(raw), "TAB")) < 3 THEN data
    ELSE TestdataPut(data, Split(Strip(raw), "TAB")[1], Split(Strip(raw), "TAB")[2],
                     Split(Strip(raw), "TAB")[3])

Loaders == {"load_lexicon", "load_word_set", "load_testdata_tsv"}

\* a call of a loader on a file, up to the first line: a missing file returns
\* the empty table (the exists() tests of load_lexicon and load_testdata_tsv,
\* FileNotFoundError caught in load_word_set), and so does a file that open()
\* refuses
LoadCall(op, file) ==
    /\ load.pc = "none"
    /\ load' = [load EXCEPT !.op = op, !.file = file,
                            !.pc = IF file.exists /\ file.readable THEN "reading"
                                   ELSE "returned",
                            !.failed = ~(file.exists /\ file.readable)]
    /\ UNCHANGED <<pipeline, globals, seg, segtext, conv, g2p>>

\* one iteration of `for line in f`
LoadLine ==
    /\ load.pc = "reading"
    /\ load.i < Len(load.file.lines)
    /\ load' =
          IF load.op = "load_lexicon"
          THEN [load EXCEPT !.i = load.i + 1,
                            !.lex = LexiconLine(load.lex, load.file.lines[load.i + 1])]
          ELSE IF load.op = "load_word_set"
          THEN [load EXCEPT
                  !.i = load.i + 1,
                  !.word_set = IF WordOfLine(load.file.lines[load.i + 1]) = <<>>
                               THEN load.word_set
                               ELSE load.word_set
                                    \cup {WordOfLine(load.file.lines[load.i + 1])},
                  !.max_len = Max(load.max_len,
                                  Len(WordOfLine(load.file.lines[load.i + 1])))]
          ELSE [load EXCEPT !.i = load.i + 1,
                            !.data = TestdataLine(load.data, load.file.lines[load.i + 1])]
    /\ UNCHANGED <<pipeline, globals, seg, segtext, conv, g2p>>

\* reading the next line raises (an undecodable byte, an I/O error): the
\* handler of load_lexicon returns {}, the handlers of load_word_set and
\* load_testdata_tsv report the error and fall through to the return statement
LoadFail ==
    /\ load.pc = "reading"
    /\ load.i < Len(load.file.lines)
    /\ load' = [load EXCEPT !.pc = "returned", !.failed = TRUE,
                            !.lex = IF load.op = "load_lexicon" THEN <<>> ELSE load.lex]
    /\ UNCHANGED <<pipeline, globals, seg, segtext, conv, g2p>>

\* the file is exhausted: the return statement
LoadReturn ==
    /\ load.pc = "reading"
    /\ load.i = Len(load.file.lines)
    /\ load' = [load EXCEPT !.pc = "returned"]
    /\ UNCHANGED <<pipeline, globals, seg, segtext, conv, g2p>>

----------------------------------------------------------------------------
(* Inputs and specifications.                                              *)

NoSegCall == [text |-> <<>>, word_set |-> {}, max_word_len |-> 0, op |-> "none",
              result |-> <<>>]

\* the standard spelling of seven, which the scale table spells differently
W_SEVEN == <<"k_BA", "s_COENG", "k_RO", "v_AA", "s_NIKAHIT", "k_PO", "v_II", "k_RO">>

\* the override tables a process may have loaded: none (the test vectors are
\* missing), or test vectors for seven
OverrideTables ==
    {[cardinal |-> <<>>, digit |-> <<>>],
     [cardinal |-> (7 :> W_SEVEN), digit |-> (<<"7">> :> W_SEVEN)]}

\* texts given to normalize_khmer_text under the default switches
Inputs ==
    {
     <<"$", "1", "0", "0", ".", "5", "0">>,
     <<"$", "1", "0", "0">>,
     <<"$", "5">>,
     <<"$", "7", ".", "0", "5">>,
     <<"$", "1", "2", "3", "4", "5", "6", "7", "8", "9", "0">>,
     <<"$", "0", "1", "2", "3", "4", "5", "6", "7", "8">>,
     <<"7", " ", "k_RO", "v_IE", "k_LO">>,
     <<"x", " ", "$", "2", "0", ".", "5", " ", "y">>,
     <<"3", "/", "1", "/", "2", "4", "5", "5">>,
     <<"3", "-", "1", "-", "2", "4", "5", "5">>,
     <<"1", "3", "/", "1", "2", "/", "9", "9">>,
     <<"k_CA", "k_NO", "s_COENG", "k_TO", "3", "/", "1", "/", "2", "4", "5", "5">>,
     <<"k_THA", "s_COENG", "k_NGO", "v_AI", " ", "3", "/", "1", "/", "2", "4", "5", "5">>,
     <<"3", "/", "1", "3", "/", "2", "4", "5", "5">>,
     <<"x", " ", "3", "1", "/", "1", "2", "/", "1", "9", "9", "9", " ", "y">>,
     <<"d_THREE", "/", "d_ONE", "/", "d_TWO", "d_FOUR", "d_FIVE", "d_FIVE">>,
     <<"4", "0", "/", "5">>,
     <<"5", "/", "1", "3">>,
     <<"4", "0", "/", "5", " ", "-", "3">>,
     <<"k_CA", "s_NIKAHIT", "k_NO", "v_UA", "k_NO", "4", "0", "/", "5">>,
     <<"x", " ", "1", "0", "0", "/", "7", ".">>,
     <<"-", "4", "0", "/", "5">>,
     <<"d_FOUR", "d_ZERO", "/", "d_FIVE">>,
     <<"5", "/", "6">>,
     <<"x", " ", "5", "/", "6">>,
     <<"4", "/", "5">>,
     <<"1", "2", "/", "1", "2">>,
     <<"d", "a", "t", "e", " ", "5", "/", "6">>,
     <<"1", "5", "/", "3">>,
     <<"5", "-", "6">>,
     <<"d", "a", "t", "e", " ", "5", "-", "6">>,
     <<"D", "A", "Y", " ", "5", "-", "6">>,
     <<"5", "-", "6", " ", "m", "o", "n", "t", "h">>,
     <<"1", "5", "-", "3">>,
     <<"3", "1", "-", "1", "2">>,
     <<"3", "2", "-", "1">>,
     <<"1", "5", "-", "1", "3">>,
     <<"0", "-", "5">>,
     <<"1", "5", "-", "0">>,
     <<"d", "a", "y", " ", ".", ".", ".", ".", ".", ".", ".", ".", ".", ".", ".", ".", ".", ".", ".", ".", ".", ".", ".", ".", " ", "5", "-", "6">>,
     <<"1", "3", "-", "1", " ", "5", "-", "6">>,
     <<"4", "0", "/", "5", " ", "1", "5", "-", "3">>,
     <<"4", "0", "/", "5", " ", "a", "n", "d", " ", "t", "h", "e", "n", " ", "1", "5", "-", "3">>,
     <<"1", "5", "-", "3", " ", "4", "0", "/", "5">>,
     <<"1", "0", ":", "3", "0">>,
     <<"5", " ", "k", "m">>,
     <<":", ")">>,
     <<"a", "@", "b", ".", "c", "o", "m">>,
     <<"0", "1", "2", "-", "3", "4", "5", "-", "6", "7", "8">>,
     <<"4", ".", "5">>,
     <<"1", "2", "3">>,
     <<"d_ONE", "d_TWO">>,
     <<"1", "7", " ", "7", "/", "7", " ", "0", ".", "0", "7">>}

\* texts given to normalize_khmer_text under every setting of Configs
ConfigInputs ==
    {
     <<"$", "1", ".", "5", " ", "1", "2">>,
     <<"1", "2", " ", "5", "-", "6", " ", ":", ")">>,
     <<"5", " ", "k", "m", " ", "7", "/", "8">>}

\* texts given to normalize_khmer_text with only the cardinal stage enabled
IdemInputs ==
    {
     <<>>,
     <<"a", "b", "c">>,
     <<":", ")">>,
     <<"$">>,
     <<"a", "@", "b", ".", "c", "o", "m">>,
     <<"k_DA", "k_BA", "s_BANTOC", " ", "k_PO", "v_II", "k_RO">>,
     <<"7">>,
     <<"1", "2">>,
     <<"1", "0", "5", " ", "x", " ", "7">>,
     <<"d_ONE", "d_TWO">>,
     <<"a", "1">>,
     <<"1", "a", " ", "5">>,
     <<"0">>,
     <<"1", "0", "0", "0", "0", "0", "0">>,
     <<"x", "-", "5">>,
     <<"1", "2", "3", "4", "5", "6", "7", "8">>,
     <<"5", " ", "k", "m">>,
     <<"3", "/", "4">>}

\* the longest text given to a segmenter
MaxTextLen == 4

\* the largest max_word_len given to a segmenter
MaxWordLen == 3

SegAlphabet == {"a", "b"}

\* the texts given to the segmenters: no spaces, at most MaxTextLen characters
SegTexts == UNION {[1..n -> SegAlphabet] : n \in 0..MaxTextLen}

\* the words a lexicon is drawn from
SegWords ==
    {<<"a">>, <<"a", "b">>, <<"b", "a">>, <<"a", "a", "b">>, <<"b", "a", "b">>,
     <<"b", "b", "a", "a">>}

\* arguments on which the longest alternative is not the first one in the text
SegExamples ==
    {[text |-> <<"a", "b", "c", "d">>,
      word_set |-> {<<"a", "b">>, <<"c", "d">>, <<"a", "b", "c", "d">>},
      max_word_len |-> 4],
     [text |-> <<"a", "b", "c", "d">>,
      word_set |-> {<<"a", "b">>, <<"c", "d">>, <<"a", "b", "c", "d">>},
      max_word_len |-> 2]}

\* no call of segment_khmer_text made yet
NoSegTextCall ==
    [status |-> "none", text |-> <<>>, method |-> "", word_set |-> {},
     word_set_given |-> FALSE, max_word_len |-> 0, max_word_len_given |-> FALSE,
     out |-> <<>>]

\* no call of number_to_khmer_words made yet
NoConvCall ==
    [status |-> "none", num |-> 0, use_testdata |-> TRUE, stack |-> <<>>, out |-> <<>>]

\* no call of khmer_g2p made yet
NoG2pCall ==
    [pc |-> "none", is_none |-> FALSE, arg |-> <<>>, auto_segment |-> FALSE,
     return_word_list |-> FALSE, text |-> <<>>, words |-> <<>>,
     out_is_list |-> FALSE, out |-> <<>>]

\* no loader called yet
NoLoadCall ==
    [pc |-> "none", op |-> "", file |-> [exists |-> FALSE, readable |-> FALSE, lines |-> <<>>],
     i |-> 0, lex |-> <<>>, word_set |-> {}, max_len |-> 0, data |-> <<>>,
     failed |-> FALSE]

Init ==
    /\ pc = "idle"
    /\ input = <<>>
    /\ text = <<>>
    /\ cfg = DefaultConfig
    /\ applied = <<>>
    /\ fracSpans = {}
    /\ dateLog = <<>>
    /\ calls = 0
    /\ results = <<>>
    /\ \E t \in OverrideTables :
          CARDINAL_TESTDATA = t.cardinal /\ DIGIT_TESTDATA = t.digit
    /\ seg = NoSegCall
    /\ segtext = NoSegTextCall
    /\ conv = NoConvCall
    /\ g2p = NoG2pCall
    /\ load = NoLoadCall
    /\ LEXICON = <<>>

Stages ==
    \/ Electronic
    \/ Emoticons
    \/ Telephone
    \/ Time
    \/ Money
    \/ Measure
    \/ YearDate
    \/ Fraction
    \/ NoYearDate
    \/ Decimal
    \/ CardinalOrDigit

\* one call per run, with the default switches or with the fraction pass off
Next ==
    \/ \E t \in Inputs, c \in {DefaultConfig, NoFractions} : Call(t, c)
    \/ Stages

Spec == Init /\ [][Next]_vars

\* one call per run, under any setting of Configs
NextConfigs ==
    \/ (pc = "idle" /\ \E t \in ConfigInputs, c \in Configs : Call(t, c))
    \/ Stages

SpecConfigs == Init /\ [][NextConfigs]_vars

\* a call with only the cardinal stage enabled, then calls on its own results
NextIdem ==
    \/ \E t \in IdemInputs : Call(t, CardinalOnly)
    \/ Stages
    \/ Renormalize

SpecIdem == Init /\ [][NextIdem]_vars

\* the segmenters, each called once on drawn arguments
InitSeg ==
    /\ pc = "idle"
    /\ input = <<>>
    /\ text = <<>>
    /\ cfg = DefaultConfig
    /\ applied = <<>>
    /\ fracSpans = {}
    /\ dateLog = <<>>
    /\ calls = 0
    /\ results = <<>>
    /\ CARDINAL_TESTDATA = <<>>
    /\ DIGIT_TESTDATA = <<>>
    /\ segtext = NoSegTextCall
    /\ conv = NoConvCall
    /\ g2p = NoG2pCall
    /\ load = NoLoadCall
    /\ LEXICON = <<>>
    /\ \/ \E t \in SegTexts, ws \in SUBSET SegWords, L \in 0..MaxWordLen :
             seg = [text |-> t, word_set |-> ws, max_word_len |-> L, op |-> "none",
                    result |-> <<>>]
       \/ \E e \in SegExamples :
             seg = [text |-> e.text, word_set |-> e.word_set,
                    max_word_len |-> e.max_word_len, op |-> "none", result |-> <<>>]

NextSeg ==
    \/ Forward
    \/ Reverse
    \/ Bidirectional

SpecSeg == InitSeg /\ [][NextSeg]_vars

\* the integers given to number_to_khmer_words
ConvInputs ==
    (0..31)
    \cup {-1000000, -2455, -101, -25, -21, -7, -5, -3, -1}
    \cup {40, 47, 70, 99, 100, 101, 107, 110, 125, 250, 700, 999, 1000, 1001, 1100, 2100, 1007, 2455,
          9999, 10000, 10007, 25000, 99999, 100000, 100025, 999999, 1000000, 1000100,
          7000007, 9999999, 10000000, 10000001, 12345678, 1000000000, 1000000001,
          2147483647}

\* the override tables of the processes that call number_to_khmer_words: none,
\* or entries for an atomic number, a negative number, a number of the 21..99
\* block and a scale word
ConvOverrideTables ==
    {<<>>,
     (7 :> W_SEVEN)
     @@ (-3 :> (W_MINUS \o KHMER_NUMBERS[3]))
     @@ (25 :> (KHMER_NUMBERS[20] \o KHMER_NUMBERS[5]))
     @@ (100 :> (KHMER_NUMBERS[1] \o KHMER_NUMBERS[100]))}

InitConv ==
    /\ pc = "idle"
    /\ input = <<>>
    /\ text = <<>>
    /\ cfg = DefaultConfig
    /\ applied = <<>>
    /\ fracSpans = {}
    /\ dateLog = <<>>
    /\ calls = 0
    /\ results = <<>>
    /\ CARDINAL_TESTDATA \in ConvOverrideTables
    /\ DIGIT_TESTDATA = <<>>
    /\ seg = NoSegCall
    /\ segtext = NoSegTextCall
    /\ conv = NoConvCall
    /\ g2p = NoG2pCall
    /\ load = NoLoadCall
    /\ LEXICON = <<>>

NextConv ==
    \/ \E n \in ConvInputs, u \in BOOLEAN : ConvCall(n, u)
    \/ ConvEnter
    \/ ConvReturn

SpecConv == InitConv /\ [][NextConv]_vars

\* every call that has begun runs on
SpecConvFair == SpecConv /\ WF_vars(ConvEnter) /\ WF_vars(ConvReturn)

\* the longest text given to segment_khmer_text
MaxSpacedLen == 3

\* the texts given to segment_khmer_text: letters, spaces and tabs
SpacedTexts == UNION {[1..n -> SegAlphabet \cup {" ", "TAB"}] : n \in 0..MaxSpacedLen}

\* the lexicon files a process may have loaded: none, or a small one
Lexicons ==
    {<<>>,
     (<<"a">> :> <<<<"A", "H">>>>)
        @@ (<<"a", "b">> :> <<<<"A", "H">>, <<"B">>>>)
        @@ (<<"b", "a", "b">> :> <<<<"B">>, <<"A", "H">>, <<"B">>>>)
        @@ (KHMER_NUMBERS[5] :> <<<<"p">>, <<"r", "a", "m">>>>)}

\* the word_set arguments: None (not given), the empty set, a small set
WordSetArgs ==
    {[given |-> FALSE, value |-> {}],
     [given |-> TRUE, value |-> {}],
     [given |-> TRUE, value |-> {<<"a">>, <<"b", "a">>}]}

\* the max_word_len arguments: None (not given), 0, 2
MaxWordLenArgs ==
    {[given |-> FALSE, value |-> 0],
     [given |-> TRUE, value |-> 0],
     [given |-> TRUE, value |-> 2]}

\* the method arguments: the three known ones and two unknown ones
MethodArgs == KnownMethods \cup {"xyz", ""}

\* segment_khmer_text called once on drawn arguments
InitSegText ==
    /\ pc = "idle"
    /\ input = <<>>
    /\ text = <<>>
    /\ cfg = DefaultConfig
    /\ applied = <<>>
    /\ fracSpans = {}
    /\ dateLog = <<>>
    /\ calls = 0
    /\ results = <<>>
    /\ CARDINAL_TESTDATA = <<>>
    /\ DIGIT_TESTDATA = <<>>
    /\ seg = NoSegCall
    /\ segtext = NoSegTextCall
    /\ conv = NoConvCall
    /\ g2p = NoG2pCall
    /\ load = NoLoadCall
    /\ LEXICON \in Lexicons

NextSegText ==
    \E t \in SpacedTexts, method \in MethodArgs, ws \in WordSetArgs,
       ml \in MaxWordLenArgs :
        SegmentKhmerText(t, method, ws.given, ws.value, ml.given, ml.value)

SpecSegText == InitSegText /\ [][NextSegText]_vars

\* the texts given to khmer_g2p
G2pInputs ==
    {<<>>,
     <<" ">>,
     <<" ", " ", " ">>,
     <<"TAB", "LF">>,
     <<"a">>,
     <<"a", "b">>,
     <<"a", " ", "b">>,
     <<" ", "a", " ", " ", "b", " ">>,
     <<"a", "TAB", "b", "LF">>,
     <<"b", "a", "b", "a">>,
     <<"b", "a", "b", " ", "a", "b", " ", "x">>,
     <<"a", "b", "a", "b", "b">>,
     <<"5">>,
     <<"a", " ", "5">>,
     <<"2", "5", " ", "a", "b">>,
     <<"k_KA", " ", "a">>,
     <<"k_KA", "k_KHA">>,
     <<"0", "1", "2", "-", "3", "4", "5", "-", "6", "7", "8">>}

\* khmer_g2p called once on drawn arguments, with the test vectors missing
InitG2p ==
    /\ pc = "idle"
    /\ input = <<>>
    /\ text = <<>>
    /\ cfg = DefaultConfig
    /\ applied = <<>>
    /\ fracSpans = {}
    /\ dateLog = <<>>
    /\ calls = 0
    /\ results = <<>>
    /\ CARDINAL_TESTDATA = <<>>
    /\ DIGIT_TESTDATA = <<>>
    /\ seg = NoSegCall
    /\ segtext = NoSegTextCall
    /\ conv = NoConvCall
    /\ g2p = NoG2pCall
    /\ load = NoLoadCall
    /\ LEXICON \in Lexicons

NextG2p ==
    \/ \E t \in G2pInputs, auto_segment \in BOOLEAN, return_word_list \in BOOLEAN :
          G2pCall(t, FALSE, auto_segment, return_word_list)
    \/ \E auto_segment \in BOOLEAN, return_word_list \in BOOLEAN :
          G2pCall(<<>>, TRUE, auto_segment, return_word_list)
    \/ Stages
    \/ G2pSegment
    \/ G2pTokens
    \/ G2pReturn

SpecG2p == InitG2p /\ [][NextG2p]_vars

\* texts given to normalize_khmer_text for the telephone and measure stages:
\* telephone numbers of 9 to 15 digits, with and without separators and a
\* leading '+', and numbers followed by each unit keyword
StageInputs ==
    {
     <<"0", "1", "2", "3", "4", "5", "6", "7", "8">>,
     <<"0", "1", "2", "3", "4", "5", "6", "7", "8", "9">>,
     <<"1", "2", "3", "4", "5", "6", "7", "8", "9", "0", "1">>,
     <<"1", "2", "3", "4", "5", "6", "7", "8", "9", "0", "1", "2">>,
     <<"1", "2", "3", "4", "5", "6", "7", "8", "9", "0", "1", "2", "3">>,
     <<"1", "2", "3", "4", "5", "6", "7", "8", "9", "0", "1", "2", "3", "4">>,
     <<"1", "2", "3", "4", "5", "6", "7", "8", "9", "0", "1", "2", "3", "4", "5">>,
     <<"0", "1", "2", "-", "3", "4", "5", "-", "6", "7", "8">>,
     <<"0", "1", "2", " ", "3", "4", "5", " ", "6", "7", "8", "9">>,
     <<"+", "8", "5", "5", "1", "2", "3", "4", "5", "6", "7", "8">>,
     <<"a", "+", "8", "5", "5", "1", "2", "3", "4", "5", "6", "7", "8">>,
     <<"x", " ", "0", "1", "2", ".", "3", "4", "5", ".", "6", "7", "8", " ", "y">>,
     <<"d_ZERO", "d_ONE", "d_TWO", "d_THREE", "d_FOUR", "d_FIVE", "d_SIX", "d_SEVEN", "d_EIGHT">>,
     <<"5", " ", "k", "m">>,
     <<"5", "k", "g">>,
     <<"2", "0", " ", "K", "M">>,
     <<"5", " ", "m", "e", "t", "e", "r">>,
     <<"1", "2", " ", "G", "r", "a", "m">>,
     <<"3", "l", "i", "t", "e", "r">>,
     <<"5", " ", "k", "i", "l", "o", "m", "e", "t", "e", "r">>,
     <<"9", " ", "K", "i", "l", "o", "g", "r", "a", "m">>,
     <<"5", " ", "p", "e", "r", "c", "e", "n", "t">>,
     <<"7", " ", " ", "%">>,
     <<"5", "%">>,
     <<"3", " ", "m">>,
     <<"a", "b", "c">>}

NextStages ==
    \/ \E t \in StageInputs : Call(t, DefaultConfig)
    \/ Stages

SpecStages == Init /\ [][NextStages]_vars

\* the most lines a file has
MaxFileLines == 3

\* the lines the files are made of: entries, one of them with three fields, a
\* repeated key, surrounding blanks, an empty line, a comment, a line of one
\* field
FileLines ==
    {<<"a", "TAB", "A", " ", "H">>,
     <<"a", "TAB", "B", "TAB", "x">>,
     <<"a", "TAB", "B", "TAB", "y">>,
     <<" ", "b", "a", " ", "TAB", " ", "B", " ">>,
     <<>>,
     <<"#", "a", "TAB", "C">>,
     <<"a", "b">>}

\* the files given to the loaders: missing, unreadable, or readable with up to
\* MaxFileLines lines
Files ==
    {[exists |-> FALSE, readable |-> FALSE, lines |-> <<>>],
     [exists |-> TRUE, readable |-> FALSE, lines |-> <<>>]}
    \cup {[exists |-> TRUE, readable |-> TRUE, lines |-> ls] :
             ls \in UNION {[1..n -> FileLines] : n \in 0..MaxFileLines}}

NextLoad ==
    \/ \E op \in Loaders, file \in Files : LoadCall(op, file)
    \/ LoadLine
    \/ LoadFail
    \/ LoadReturn

\* a loader called once on a drawn file, before any table is loaded
InitLoad ==
    /\ pc = "idle"
    /\ input = <<>>
    /\ text = <<>>
    /\ cfg = DefaultConfig
    /\ applied = <<>>
    /\ fracSpans = {}
    /\ dateLog = <<>>
    /\ calls = 0
    /\ results = <<>>
    /\ CARDINAL_TESTDATA = <<>>
    /\ DIGIT_TESTDATA = <<>>
    /\ seg = NoSegCall
    /\ segtext = NoSegTextCall
    /\ conv = NoConvCall
    /\ g2p = NoG2pCall
    /\ load = NoLoadCall
    /\ LEXICON = <<>>

SpecLoad == InitLoad /\ [][NextLoad]_vars

\* the texts of the calls that run side by side
SharedTexts == {<<"a", "b", " ", "5">>, <<"b", "a", "b", "a">>}

\* the numbers of the calls that run side by side
SharedNumbers == {-7, 125}

\* the tables as loaded at import, and the arguments of the segmenter call
InitShared ==
    /\ pc = "idle"
    /\ input = <<>>
    /\ text = <<>>
    /\ cfg = DefaultConfig
    /\ applied = <<>>
    /\ fracSpans = {}
    /\ dateLog = <<>>
    /\ calls = 0
    /\ results = <<>>
    /\ \E t \in OverrideTables :
          CARDINAL_TESTDATA = t.cardinal /\ DIGIT_TESTDATA = t.digit
    /\ seg = [text |-> <<"a", "b", "a">>, word_set |-> {<<"a", "b">>, <<"b", "a">>},
              max_word_len |-> 2, op |-> "none", result |-> <<>>]
    /\ segtext = NoSegTextCall
    /\ conv = NoConvCall
    /\ g2p = NoG2pCall
    /\ load = NoLoadCall
    /\ LEXICON \in Lexicons

\* calls of normalize_khmer_text, number_to_khmer_words, the three segmenters,
\* segment_khmer_text and khmer_g2p, their steps interleaved in any order
NextShared ==
    \/ \E t \in SharedTexts : Call(t, DefaultConfig)
    \/ \E t \in SharedTexts, auto_segment \in BOOLEAN : G2pCall(t, FALSE, auto_segment, TRUE)
    \/ Stages
    \/ G2pSegment
    \/ G2pTokens
    \/ G2pReturn
    \/ \E n \in SharedNumbers : ConvCall(n, TRUE)
    \/ ConvEnter
    \/ ConvReturn
    \/ Forward
    \/ Reverse
    \/ Bidirectional
    \/ SegmentKhmerText(<<"a", " ", "b", "a">>, "bidirectional", FALSE, {}, FALSE, 0)

SpecShared == InitShared /\ [][NextShared]_vars

----------------------------------------------------------------------------
(* Properties.                                                             *)

\* no decimal digit occurs in t
NoDigits(t) == \A i \in 1..Len(t) : t[i] \notin Digit

\* the offset of the separator of a two-part sequence w
SepIndex(w) ==
    CHOOSE i \in 1..Len(w) :
        /\ w[i] \in {"/", "-"}
        /\ \A j \in 1..(i - 1) : w[j] \notin {"/", "-"}

\* the numbers before and after the separator of a two-part sequence w
FirstNumber(w) == PyInt(SubSeq(w, 1, SepIndex(w) - 1))

SecondNumber(w) == PyInt(SubSeq(w, SepIndex(w) + 1, Len(w)))

\* a date-indicating word occurs in the 20 characters before offset a of t or in
\* the 20 characters from offset b on
WindowHasDateWord(t, a, b) ==
    \E w \in DATE_WORDS :
        \/ Contains(Lower(Slice(t, Max(0, a - 20), a)), w)
        \/ Contains(Lower(Slice(t, b, b + 20)), w)

\* "convert(D) ខែ <month name of M>"
DateRendering(d, m) ==
    number_to_khmer_words(d, TRUE) \o SP \o W_MONTH \o SP \o KHMER_MONTHS[m]

\* C1: whichever of longest_matching, reverse_longest_matching and
\* bidirectional_matching was called, on whatever text, word set and maximum
\* word length, its tokens concatenated without separator are the text it was
\* given.
C1_TokensReconstructText == seg.op # "none" => Concat(seg.result) = seg.text

\* a bidirectional segmentation that mixes a lexicon word of two or more
\* characters with a single character that is no lexicon word
C1_Witness ==
    /\ seg.op = "bidirectional"
    /\ \E i \in 1..Len(seg.result) :
          Len(seg.result[i]) >= 2 /\ seg.result[i] \in seg.word_set
    /\ \E i \in 1..Len(seg.result) :
          Len(seg.result[i]) = 1 /\ seg.result[i] \notin seg.word_set
    /\ Concat(seg.result) = seg.text

\* the step of the claimed order each recorded statement belongs to: electronic,
\* emoticon, telephone, time, money, measure, date/fraction, decimal, cardinal or
\* digit
ClaimedStep ==
    "electronic" :> 1 @@ "emoticons" :> 2 @@ "telephone" :> 3 @@ "time" :> 4
    @@ "money" :> 5 @@ "measure" :> 6 @@ "year_date" :> 7 @@ "fraction" :> 7
    @@ "no_year_date" :> 7 @@ "decimal" :> 8 @@ "cardinal" :> 9 @@ "digit" :> 9

\* step k of the claimed order is enabled by the switches c
StepEnabled(c, k) ==
    CASE k = 1 -> c.normalize_electronic_flag
      [] k = 2 -> c.normalize_emoticons_flag
      [] k = 3 -> c.normalize_telephone_flag
      [] k = 4 -> c.normalize_time_flag
      [] k = 5 -> c.normalize_money_flag
      [] k = 6 -> c.normalize_measure_flag
      [] k = 7 -> c.normalize_dates \/ c.normalize_fractions
      [] k = 8 -> c.normalize_decimals
      [] k = 9 -> c.normalize_cardinals \/ c.normalize_digits

\* C2: under every setting of the switches the stages applied so far are
\* enabled ones, in the order electronic, emoticon, telephone, time, money,
\* measure, date/fraction, decimal, cardinal or digit; the first received the
\* input and each later one the output of the one before it; the text is the
\* output of the last one; and a finished call has applied every enabled stage.
C2_FixedStageOrder ==
    /\ \A i, j \in 1..Len(applied) :
          i < j =>
             \/ ClaimedStep[applied[i].stage] < ClaimedStep[applied[j].stage]
             \/ ClaimedStep[applied[i].stage] = 7 /\ ClaimedStep[applied[j].stage] = 7
    /\ \A i \in 1..Len(applied) :
          /\ StepEnabled(cfg, ClaimedStep[applied[i].stage])
          /\ applied[i].in = IF i = 1 THEN input ELSE applied[i - 1].out
    /\ text = IF applied = <<>> THEN input ELSE applied[Len(applied)].out
    /\ pc = "done" =>
          \A k \in 1..9 :
             StepEnabled(cfg, k) => \E i \in 1..Len(applied) : ClaimedStep[applied[i].stage] = k

\* a finished call with the time stage switched off in which the money stage and
\* a later stage each rewrote the text
C2_Witness ==
    /\ pc = "done"
    /\ ~cfg.normalize_time_flag
    /\ \E i, j \in 1..Len(applied) :
          /\ i < j
          /\ applied[i].stage = "money"
          /\ applied[i].out # applied[i].in
          /\ applied[j].out # applied[j].in

\* t is a dollar amount, "$<int>" or "$<int>.<digits>"
IsDollarAmount(t) ==
    /\ Len(t) >= 2
    /\ t[1] = "$"
    /\ \A i \in 2..Len(t) : t[i] \in Digit \cup {"."}
    /\ Cardinality({i \in 2..Len(t) : t[i] = "."}) <= 1
    /\ t[2] # "."
    /\ t[Len(t)] # "."

\* C3: under the default switches a finished call on a text that is a dollar
\* amount, "$<int>" or "$<int>.<digits>", returns the spelled integer, then
\* "ក្បៀស" and the fractional words when there is a fractional part, then the
\* name of the US dollar.
C3_DollarAmountsCurrencyFirst ==
    (pc = "done" /\ cfg = DefaultConfig /\ IsDollarAmount(input))
        => text = replace_money(Tail(input), "usd")

\* D<sep>M<sep>Y read off the text alone: 1-2 digits, a separator, 1-2 digits, a
\* separator, 2-4 digits
three_part_sequence ==
    Cat(<<Grp(1, Rep(AnyDigit, 1, 2)), DateSep, Grp(2, Rep(AnyDigit, 1, 2)), DateSep,
          Grp(3, Rep(AnyDigit, 2, 4))>>)

\* m is a sequence of whole numbers of t: no digit stands next to it
WholeNumbers(t, m) ==
    /\ m.found
    /\ (m.start = 0 \/ t[m.start] \notin Digit)
    /\ (m.end = Len(t) \/ t[m.end + 1] \notin Digit)

\* "convert(D) ខែ <month name of M> ឆ្នាំ convert(Y)"
YearDateRendering(d, m, y) ==
    DateRendering(d, m) \o SP \o W_YEAR \o SP \o number_to_khmer_words(y, TRUE)

\* C4: with the date stage enabled, a finished call has rewritten every
\* D<sep>M<sep>Y of its input whose month is in 1..12 as the year-qualified
\* date, whatever the day and whatever stands around the sequence.
C4_ThreePartDatesRewritten ==
    (pc = "done" /\ cfg.normalize_dates) =>
        \A q \in 0..Len(input) :
            LET m == MatchAt(three_part_sequence, input, q)
            IN  (/\ WholeNumbers(input, m)
                 /\ PyInt(Group(input, m, 2)) \in 1..12)
                => Contains(text, YearDateRendering(PyInt(Group(input, m, 1)),
                                                    PyInt(Group(input, m, 2)),
                                                    PyInt(Group(input, m, 3))))

\* a/b read off the text alone
two_part_sequence == Cat(<<Grp(1, Plus(AnyDigit)), Lit("/"), Grp(2, Plus(AnyDigit))>>)

\* the match m of a/b in t is not part of a three-part sequence: no number and
\* separator stand directly before it, no separator and number directly behind
StandsAlone(t, m) ==
    /\ WholeNumbers(t, m)
    /\ ~(m.start >= 2 /\ t[m.start] \in {"/", "-"} /\ t[m.start - 1] \in Digit)
    /\ ~(m.end + 2 <= Len(t) /\ t[m.end + 1] \in {"/", "-"} /\ t[m.end + 2] \in Digit)

\* "convert(a) លើ convert(b)"
FractionRendering(a, b) ==
    number_to_khmer_words(a, TRUE) \o SP \o W_OVER \o SP \o number_to_khmer_words(b, TRUE)

\* C5: with the fraction stage enabled, a finished call has rewritten every a/b
\* of its input that is not part of a three-part sequence and has a > 31 or
\* b > 12 as the fraction "convert(a) លើ convert(b)".
C5_LargeOperandFractionsRewritten ==
    (pc = "done" /\ cfg.normalize_fractions) =>
        \A q \in 0..Len(input) :
            LET m == MatchAt(two_part_sequence, input, q)
            IN  (/\ StandsAlone(input, m)
                 /\ (PyInt(Group(input, m, 1)) > 31 \/ PyInt(Group(input, m, 2)) > 12))
                => Contains(text, FractionRendering(PyInt(Group(input, m, 1)),
                                                    PyInt(Group(input, m, 2))))

\* t holds one d/m with d and m in 1..12, no other digit and no date word
IsAmbiguousPair(t) ==
    /\ \E q \in 0..Len(t) :
          LET m == MatchAt(two_part_sequence, t, q)
          IN  /\ StandsAlone(t, m)
              /\ PyInt(Group(t, m, 1)) \in 1..12
              /\ PyInt(Group(t, m, 2)) \in 1..12
              /\ \A i \in 1..Len(t) : t[i] \in Digit => (m.start < i /\ i <= m.end)
    /\ \A w \in DATE_WORDS : ~Contains(Lower(t), w)

\* C6: under the default switches, when the input holds one d/m with d and m
\* in 1..12 and no date word, none of the three passes of the date/fraction
\* step changes the text.
C6_AmbiguousPairUntouched ==
    (cfg = DefaultConfig /\ IsAmbiguousPair(input)) =>
        \A i \in 1..Len(applied) :
            ClaimedStep[applied[i].stage] = 7 => applied[i].out = applied[i].in

\* C7: whatever the no-year date pass rewrote is a D<sep>M with M in 1..12 and
\* D in 1..31 that has D > 12 or a date word in the window around it, and it
\* was rewritten as "convert(D) ខែ <month name>"; the pass returned its input
\* with nothing but these rewrites.
C7_NoYearDateOnlyIfDayOrContext ==
    \A i \in 1..Len(applied) :
        applied[i].stage = "no_year_date" =>
            LET t == applied[i].in
            IN  /\ \A k \in 1..Len(dateLog) :
                      LET e == dateLog[k]
                          w == Slice(t, e.start, e.end)
                      IN  e.out # w =>
                             /\ FirstNumber(w) > 12 \/ WindowHasDateWord(t, e.start, e.end)
                             /\ SecondNumber(w) \in 1..12
                             /\ FirstNumber(w) \in 1..31
                             /\ e.out = DateRendering(FirstNumber(w), SecondNumber(w))
                /\ applied[i].out = Sub(t, dateLog, [k \in 1..Len(dateLog) |-> dateLog[k].out])

\* a finished call whose no-year date pass rewrote one sequence and returned
\* another, with a day of at most 12, unchanged
C7_Witness ==
    /\ pc = "done"
    /\ \E i \in 1..Len(applied) :
          /\ applied[i].stage = "no_year_date"
          /\ \E k1, k2 \in 1..Len(dateLog) :
                /\ dateLog[k1].out
                      # Slice(applied[i].in, dateLog[k1].start, dateLog[k1].end)
                /\ dateLog[k2].out
                      = Slice(applied[i].in, dateLog[k2].start, dateLog[k2].end)
                /\ FirstNumber(dateLog[k2].out) \in 1..12
                /\ SecondNumber(dateLog[k2].out) \in 1..12

\* the span of e overlaps a span the fraction pass wrote
OverlapsFraction(e) == \E sp \in fracSpans : e.start < sp[2] /\ sp[1] < e.end

\* C8: of the candidates of the no-year date pass, those and only those that
\* overlap a span the fraction pass wrote are excluded: an overlapping one is
\* returned unchanged, and one that does not overlap and qualifies as a date
\* (M in 1..12, D in 1..31, D > 12 or a date word around it) is rewritten.
C8_ExactlyFractionSpansExcluded ==
    \A i \in 1..Len(applied) :
        (applied[i].stage = "no_year_date" /\ cfg.normalize_fractions) =>
            LET t == applied[i].in
            IN  \A k \in 1..Len(dateLog) :
                    LET e == dateLog[k]
                        w == Slice(t, e.start, e.end)
                    IN  /\ OverlapsFraction(e) => e.out = w
                        /\ (/\ ~OverlapsFraction(e)
                            /\ SecondNumber(w) \in 1..12
                            /\ FirstNumber(w) \in 1..31
                            /\ (FirstNumber(w) > 12 \/ WindowHasDateWord(t, e.start, e.end)))
                           => e.out = DateRendering(FirstNumber(w), SecondNumber(w))

\* C9: the digit stage is applied only with the cardinal switch off and the
\* digit switch on, and then always; with the cardinal switch on the last
\* stage is the cardinal one, whatever the digit switch and the other switches.
C9_CardinalExcludesDigit ==
    /\ \A i \in 1..Len(applied) :
          /\ applied[i].stage = "digit" =>
                (~cfg.normalize_cardinals /\ cfg.normalize_digits
                 /\ applied[i].out = normalize_digit(applied[i].in))
          /\ applied[i].stage = "cardinal" =>
                (cfg.normalize_cardinals
                 /\ applied[i].out = normalize_cardinal(applied[i].in))
    /\ pc = "done" =>
          /\ cfg.normalize_cardinals =>
                applied # <<>> /\ applied[Len(applied)].stage = "cardinal"
          /\ (~cfg.normalize_cardinals /\ cfg.normalize_digits) =>
                applied # <<>> /\ applied[Len(applied)].stage = "digit"

\* a finished call with both switches on whose cardinal stage rewrote a number
\* that the digit stage would have spelled differently
C9_Witness ==
    /\ pc = "done"
    /\ cfg.normalize_cardinals
    /\ cfg.normalize_digits
    /\ applied # <<>>
    /\ applied[Len(applied)].stage = "cardinal"
    /\ applied[Len(applied)].out # applied[Len(applied)].in
    /\ applied[Len(applied)].out # normalize_digit(applied[Len(applied)].in)

\* C10: with only the cardinal stage enabled, a call on a text without digits
\* returns the text, and when a call returns a text without digits the call on
\* that result returns it again.
C10_CardinalOnlyIdempotent ==
    cfg = CardinalOnly =>
        /\ \A i \in 1..Len(results) :
              NoDigits(results[i].in) => results[i].out = results[i].in
        /\ \A i \in 1..(Len(results) - 1) :
              /\ results[i + 1].in = results[i].out
              /\ NoDigits(results[i].out) => results[i + 1].out = results[i].out

\* two calls in a row: the first spelled out every digit of a text with digits,
\* the second returned its input
C10_Witness ==
    /\ cfg = CardinalOnly
    /\ Len(results) >= 2
    /\ ~NoDigits(results[1].in)
    /\ NoDigits(results[1].out)
    /\ results[2].in = results[1].out
    /\ results[2].out = results[1].out

----------------------------------------------------------------------------
(* Properties of the segmenters, the numeral converter and the phonemizer. *)

\* C11: bidirectional_matching returns the forward result when the forward and
\* the reverse result are the same, and the one with strictly fewer tokens
\* when their token counts differ; its result is always one of the two, and
\* its token count is the smaller of the two token counts.
C11_BidirectionalFewerTokens ==
    seg.op = "bidirectional" =>
        /\ (longest_matching(seg.text, seg.word_set, seg.max_word_len)
               = reverse_longest_matching(seg.text, seg.word_set, seg.max_word_len))
              => seg.result = longest_matching(seg.text, seg.word_set, seg.max_word_len)
        /\ (Len(longest_matching(seg.text, seg.word_set, seg.max_word_len))
               < Len(reverse_longest_matching(seg.text, seg.word_set, seg.max_word_len)))
              => seg.result = longest_matching(seg.text, seg.word_set, seg.max_word_len)
        /\ (Len(reverse_longest_matching(seg.text, seg.word_set, seg.max_word_len))
               < Len(longest_matching(seg.text, seg.word_set, seg.max_word_len)))
              => seg.result
                    = reverse_longest_matching(seg.text, seg.word_set, seg.max_word_len)
        /\ seg.result \in
              {longest_matching(seg.text, seg.word_set, seg.max_word_len),
               reverse_longest_matching(seg.text, seg.word_set, seg.max_word_len)}
        /\ Len(seg.result)
              = Min(Len(longest_matching(seg.text, seg.word_set, seg.max_word_len)),
                    Len(reverse_longest_matching(seg.text, seg.word_set, seg.max_word_len)))

\* a bidirectional segmentation of a text whose reverse segmentation has fewer
\* tokens than its forward one
C11_Witness ==
    /\ seg.op = "bidirectional"
    /\ Len(reverse_longest_matching(seg.text, seg.word_set, seg.max_word_len))
          < Len(longest_matching(seg.text, seg.word_set, seg.max_word_len))
    /\ seg.result = reverse_longest_matching(seg.text, seg.word_set, seg.max_word_len)

\* the offset in the text at which token k of a segmentation starts
TokenStart(tokens, k) == SumLen(SubSeq(tokens, 1, k - 1))

\* the lengths n <= min(L, remaining) for which t[i:i+n] is in the word set
WordLengthsAt(t, word_set, L, i) ==
    {n \in 1..Min(L, Len(t) - i) : Slice(t, i, i + n) \in word_set}

\* C12: every token of a forward segmentation is the longest substring at its
\* position, of length at most min(L, remaining), that is in the word set, and
\* the single character at its position when there is none; the tokens cover
\* the text; and "abcd" under {"ab", "cd", "abcd"} with L = 4 gives ["abcd"].
C12_ForwardLongestFirst ==
    seg.op = "forward" =>
        /\ SumLen(seg.result) = Len(seg.text)
        /\ \A k \in 1..Len(seg.result) :
              IF WordLengthsAt(seg.text, seg.word_set, seg.max_word_len,
                               TokenStart(seg.result, k)) = {}
              THEN seg.result[k] = <<seg.text[TokenStart(seg.result, k) + 1]>>
              ELSE seg.result[k]
                      = Slice(seg.text, TokenStart(seg.result, k),
                              TokenStart(seg.result, k)
                              + Greatest(WordLengthsAt(seg.text, seg.word_set,
                                                       seg.max_word_len,
                                                       TokenStart(seg.result, k))))
        /\ (/\ seg.text = <<"a", "b", "c", "d">>
            /\ seg.word_set = {<<"a", "b">>, <<"c", "d">>, <<"a", "b", "c", "d">>}
            /\ seg.max_word_len = 4)
           => seg.result = <<<<"a", "b", "c", "d">>>>

\* the forward segmentation of "abcd" under {"ab", "cd", "abcd"} with L = 4
C12_Witness ==
    /\ seg.op = "forward"
    /\ seg.text = <<"a", "b", "c", "d">>
    /\ seg.word_set = {<<"a", "b">>, <<"c", "d">>, <<"a", "b", "c", "d">>}
    /\ seg.max_word_len = 4
    /\ seg.result = <<<<"a", "b", "c", "d">>>>

\* C13: every call of number_to_khmer_words that has begun returns, whatever
\* the integer is (negative, zero or positive) and whatever the override
\* table holds: it raises nothing and its recursion comes to an end.
C13_ConversionReturns == (conv.status = "running") ~> (conv.status = "returned")

\* a call on a negative number that has returned, in a process with override
\* entries
C13_Witness ==
    /\ conv.status = "returned"
    /\ conv.num < -1000
    /\ DOMAIN CARDINAL_TESTDATA # {}
    /\ conv.out # <<>>

\* C14: the string number_to_khmer_words returns for an integer of magnitude
\* at most 10^12 holds no decimal digit.  (Every integer the calls are made
\* on is below 2^31, hence below 10^12.)
C14_NoDigitsUpToTrillion == conv.status = "returned" => NoDigits(conv.out)

\* C15: with an empty override table, 0 gives the word for zero, 15 the table
\* entry for fifteen, 21 the word for twenty and the word for one, 100 the bare
\* word for hundred, 101 one-hundred-one, and -5 the negative marker and the
\* word for five.
C15_SpotValues ==
    (conv.status = "returned" /\ DOMAIN CARDINAL_TESTDATA = {}) =>
        /\ conv.num = 0 => conv.out = <<"k_SA", "v_UU", "k_NO", "s_COENG", "k_YO">>
        /\ conv.num = 15 =>
              conv.out = <<"k_DA", "k_BA", "s_BANTOC", " ",
                           "k_BA", "s_COENG", "k_RO", "v_AA", "s_NIKAHIT">>
        /\ conv.num = 21 =>
              conv.out = <<"k_MO", "s_COENG", "k_PHO", "v_AI", " ", "k_MO", "v_UA", "k_YO">>
        /\ conv.num = 100 => conv.out = <<"k_RO", "k_YO">>
        /\ conv.num = 101 =>
              conv.out = <<"k_MO", "v_UA", "k_YO", " ", "k_RO", "k_YO", " ",
                           "k_MO", "v_UA", "k_YO">>
        /\ conv.num = -5 =>
              conv.out = <<"k_DA", "k_KA", " ",
                           "k_BA", "s_COENG", "k_RO", "v_AA", "s_NIKAHIT">>

\* the call on 101 has returned one-hundred-one, the override table being empty
C15_Witness ==
    /\ conv.status = "returned"
    /\ DOMAIN CARDINAL_TESTDATA = {}
    /\ conv.num = 101
    /\ conv.out = <<"k_MO", "v_UA", "k_YO", " ", "k_RO", "k_YO", " ", "k_MO", "v_UA", "k_YO">>

\* C16: a call of number_to_khmer_words on an integer that has an override
\* entry returns that entry: every such call, the outermost one and the
\* recursive ones on -n, on the quotient and on the remainder alike, goes from
\* its entry straight to returning the entry, whatever the negative rule, the
\* scale table and the decomposition would give.
C16_OverrideTakesPrecedence ==
    /\ \A i \in 1..Len(conv.stack) :
          (/\ conv.stack[i].use_testdata
           /\ conv.stack[i].num \in DOMAIN CARDINAL_TESTDATA
           /\ conv.stack[i].at # "enter")
          => /\ conv.stack[i].at = "return"
             /\ conv.stack[i].acc = CARDINAL_TESTDATA[conv.stack[i].num]
    /\ (/\ conv.status = "returned"
        /\ conv.use_testdata
        /\ conv.num \in DOMAIN CARDINAL_TESTDATA)
       => conv.out = CARDINAL_TESTDATA[conv.num]

\* the recursive call on a remainder that has an override entry is about to
\* return the entry to the call that waits for it
C16_Witness ==
    /\ conv.status = "running"
    /\ Len(conv.stack) >= 2
    /\ conv.stack[Len(conv.stack) - 1].at = "remainder"
    /\ conv.stack[Len(conv.stack)].at = "return"
    /\ conv.stack[Len(conv.stack)].num \in DOMAIN CARDINAL_TESTDATA
    /\ conv.stack[Len(conv.stack)].num \notin DOMAIN KHMER_NUMBERS
    /\ conv.stack[Len(conv.stack)].acc
          = CARDINAL_TESTDATA[conv.stack[Len(conv.stack)].num]

\* C19: segment_khmer_text raises ValueError for every call whose method is not
\* 'forward', 'reverse' or 'bidirectional', whatever the text and the word set
\* are (empty or whitespace-only text and an empty word set included), and
\* never returns a result for such a method.
C19_UnknownMethodRejected ==
    (segtext.status # "none" /\ segtext.method \notin KnownMethods)
        => segtext.status = "raised"

\* C20: with an empty word set segment_khmer_text does not raise and returns
\* the text it was given, character for character, internal spaces included.
C20_EmptyWordSetReturnsInput ==
    (/\ segtext.status # "none"
     /\ (IF segtext.word_set_given THEN segtext.word_set ELSE WORD_SET) = {})
        => segtext.status = "returned" /\ segtext.out = segtext.text

\* C17: khmer_g2p does not raise when its text is None, empty or whitespace
\* only, for both values of auto_segment: it returns the empty list when
\* return_word_list is true and the empty string when it is false.
C17_EmptyInputNeverRaises ==
    (/\ g2p.pc \in {"returned", "raised"}
     /\ (g2p.is_none \/ Strip(g2p.arg) = <<>>))
        => /\ g2p.pc = "returned"
           /\ g2p.out = <<>>
           /\ g2p.out_is_list = g2p.return_word_list

\* the maximal runs of non-whitespace characters of s, as pairs of offsets
WordRuns(s) ==
    {r \in (0..Len(s)) \X (0..Len(s)) :
        /\ r[1] < r[2]
        /\ \A i \in (r[1] + 1)..r[2] : s[i] \notin Space
        /\ (r[1] = 0 \/ s[r[1]] \in Space)
        /\ (r[2] = Len(s) \/ s[r[2] + 1] \in Space)}

\* the k-th maximal run of non-whitespace characters of s
WordRun(s, k) ==
    LET r == CHOOSE r \in WordRuns(s) :
                Cardinality({q \in WordRuns(s) : q[1] < r[1]}) = k - 1
    IN  Slice(s, r[1], r[2])

\* C18: khmer_g2p emits one element per whitespace-separated token of the
\* normalized (and, with auto_segment, segmented) text, in the order of the
\* tokens: the phonemes of the lexicon entry joined by single spaces for a
\* token that is a lexicon key, and the whole token unchanged for any other;
\* the string result is these elements joined by single spaces.
C18_OneElementPerToken ==
    g2p.pc = "returned" =>
        /\ Len(g2p.words) = Cardinality(WordRuns(g2p.text))
        /\ \A k \in 1..Len(g2p.words) :
              g2p.words[k] = IF WordRun(g2p.text, k) \in DOMAIN LEXICON
                             THEN Join(SP, LEXICON[WordRun(g2p.text, k)])
                             ELSE WordRun(g2p.text, k)
        /\ g2p.out = IF g2p.return_word_list THEN g2p.words ELSE Join(SP, g2p.words)
        /\ g2p.out_is_list = g2p.return_word_list

\* a call returned for a text with a token that is a lexicon key and a token
\* of several characters that is not
C18_Witness ==
    /\ g2p.pc = "returned"
    /\ Len(g2p.words) >= 2
    /\ \E k \in 1..Len(g2p.words) : WordRun(g2p.text, k) \in DOMAIN LEXICON
    /\ \E k \in 1..Len(g2p.words) :
          /\ WordRun(g2p.text, k) \notin DOMAIN LEXICON
          /\ Len(WordRun(g2p.text, k)) > 1
          /\ g2p.words[k] = WordRun(g2p.text, k)

\* the scale s of {100, 1000, 10000, 100000, 1000000} with s <= n < 10 * s
ScaleOf(n) ==
    CHOOSE s \in {100, 1000, 10000, 100000, 1000000} : s <= n /\ n < 10 * s

\* C25: for a number n that is neither in the scale table nor overridden,
\* number_to_khmer_words(n) is, for 21 <= n < 100, the tens word followed by
\* the ones word, and for s <= n < 10 * s, s one of 100 ... 1000000, the
\* conversion of n div s, the word of s and, unless n mod s = 0, the
\* conversion of n mod s, separated by single spaces; a table entry ends the
\* decomposition, so the remainder 100 of 1100 is the bare word for hundred.
C25_QuotientRemainderDecomposition ==
    (/\ conv.status = "returned"
     /\ 21 <= conv.num /\ conv.num < 10000000
     /\ conv.num \notin DOMAIN KHMER_NUMBERS
     /\ ~(conv.use_testdata /\ conv.num \in DOMAIN CARDINAL_TESTDATA))
        => /\ conv.num < 100 =>
                 conv.out = KHMER_NUMBERS[(conv.num \div 10) * 10] \o SP
                            \o KHMER_NUMBERS[conv.num % 10]
           /\ (conv.num >= 100 /\ conv.num % ScaleOf(conv.num) = 0) =>
                 conv.out = number_to_khmer_words(conv.num \div ScaleOf(conv.num),
                                                  conv.use_testdata)
                            \o SP \o KHMER_NUMBERS[ScaleOf(conv.num)]
           /\ (conv.num >= 100 /\ conv.num % ScaleOf(conv.num) # 0) =>
                 conv.out = number_to_khmer_words(conv.num \div ScaleOf(conv.num),
                                                  conv.use_testdata)
                            \o SP \o KHMER_NUMBERS[ScaleOf(conv.num)] \o SP
                            \o number_to_khmer_words(conv.num % ScaleOf(conv.num),
                                                     conv.use_testdata)
           /\ (conv.num = 1100 /\ DOMAIN CARDINAL_TESTDATA = {}) =>
                 conv.out = KHMER_NUMBERS[1] \o SP \o KHMER_NUMBERS[1000] \o SP
                            \o KHMER_NUMBERS[100]

\* the call on 1100 has returned one, thousand and the bare word for hundred
C25_Witness ==
    /\ conv.status = "returned"
    /\ conv.num = 1100
    /\ DOMAIN CARDINAL_TESTDATA = {}
    /\ conv.out = <<"k_MO", "v_UA", "k_YO", " ", "k_PO", "v_AA", "k_NO", "s_BANTOC",
                    " ", "k_RO", "k_YO">>

\* the sequence s read backwards
Reversed(s) == [i \in 1..Len(s) |-> s[Len(s) + 1 - i]]

\* the token list read backwards, each token read backwards
Mirrored(tokens) == Reversed([k \in 1..Len(tokens) |-> Reversed(tokens[k])])

\* C27: reverse_longest_matching(text, W, L) equals longest_matching on the
\* reversed text with the reversed words of W, with the order of the tokens
\* and each token reversed; its tokens are in left-to-right order.
C27_ReverseMirrorsForward ==
    seg.op = "reverse" =>
        /\ seg.result = Mirrored(longest_matching(Reversed(seg.text),
                                                  {Reversed(w) : w \in seg.word_set},
                                                  seg.max_word_len))
        /\ Concat(seg.result) = seg.text

\* a reverse segmentation of several tokens that differs from the forward one
C27_Witness ==
    /\ seg.op = "reverse"
    /\ Len(seg.result) >= 2
    /\ \E k \in 1..Len(seg.result) : Len(seg.result[k]) >= 2
    /\ seg.result # longest_matching(seg.text, seg.word_set, seg.max_word_len)

\* C29: when the forward and the reverse segmentation differ and have the same
\* number of tokens, bidirectional_matching returns the forward one; the two
\* average token lengths are then equal, both lists spelling the same text.
C29_TieReturnsForward ==
    (/\ seg.op = "bidirectional"
     /\ longest_matching(seg.text, seg.word_set, seg.max_word_len)
           # reverse_longest_matching(seg.text, seg.word_set, seg.max_word_len)
     /\ Len(longest_matching(seg.text, seg.word_set, seg.max_word_len))
           = Len(reverse_longest_matching(seg.text, seg.word_set, seg.max_word_len)))
        => /\ seg.result = longest_matching(seg.text, seg.word_set, seg.max_word_len)
           /\ SumLen(longest_matching(seg.text, seg.word_set, seg.max_word_len))
                 = SumLen(reverse_longest_matching(seg.text, seg.word_set,
                                                   seg.max_word_len))

\* a bidirectional segmentation of a text whose two segmentations differ with
\* the same number of tokens
C29_Witness ==
    /\ seg.op = "bidirectional"
    /\ longest_matching(seg.text, seg.word_set, seg.max_word_len)
          # reverse_longest_matching(seg.text, seg.word_set, seg.max_word_len)
    /\ Len(longest_matching(seg.text, seg.word_set, seg.max_word_len))
          = Len(reverse_longest_matching(seg.text, seg.word_set, seg.max_word_len))
    /\ seg.result = longest_matching(seg.text, seg.word_set, seg.max_word_len)

\* s without its whitespace characters
Despaced(s) == SelectSeq(s, LAMBDA c : c \notin Space)

\* C26: under a non-empty word set segment_khmer_text segments the text with
\* all its whitespace removed, spaces, tabs and newlines alike: the returned
\* string without its separators is the given text without its whitespace, and
\* no returned token has a whitespace character.
C26_SegmentsDespacedText ==
    (/\ segtext.status = "returned"
     /\ segtext.method \in KnownMethods
     /\ (IF segtext.word_set_given THEN segtext.word_set ELSE WORD_SET) # {})
        => /\ SelectSeq(segtext.out, LAMBDA c : c # " ") = Despaced(segtext.text)
           /\ \A k \in 1..Len(Split(segtext.out, " ")) :
                 \A i \in 1..Len(Split(segtext.out, " ")[k]) :
                    Split(segtext.out, " ")[k][i] \notin Space

\* C22: normalize_khmer_text never raises: every stage returns a string, also
\* on a text where a matched span has a character that is no digit, such as
\* the leading '+' of a telephone number.
C22_NormalizeNeverRaises == pc # "raised"

\* t is a telephone number standing alone: digits and separators only, matched
\* as a whole by the telephone pattern
IsPhoneNumber(t) ==
    /\ \A i \in 1..Len(t) : t[i] \in Digit \cup {"-", ".", " "}
    /\ MatchAt(phone_pattern, t, 0).found
    /\ MatchAt(phone_pattern, t, 0).end = Len(t)

\* the maximal runs of words other than "sil" in a list of words, as pairs of
\* offsets
DigitGroups(words) ==
    {r \in (0..Len(words)) \X (0..Len(words)) :
        /\ r[1] < r[2]
        /\ \A i \in (r[1] + 1)..r[2] : words[i] # W_SIL
        /\ (r[1] = 0 \/ words[r[1]] = W_SIL)
        /\ (r[2] = Len(words) \/ words[r[2] + 1] = W_SIL)}

\* the words of a rendering that are not "sil"
DigitWords(words) == SelectSeq(words, LAMBDA w : w # W_SIL)

\* the rendering `out` of the telephone number t is as claimed
ClaimedPhoneRendering(t, out) ==
    /\ DigitWords(Split(out, " "))
          = [i \in 1..Len(PhoneDigits(t)) |-> KHMER_NUMBERS[DigitVal[PhoneDigits(t)[i]]]]
    /\ \A r \in DigitGroups(Split(out, " ")) : r[2] - r[1] \in {3, 4}
    /\ Len(Split(out, " ")) - Len(DigitWords(Split(out, " ")))
          = Cardinality(DigitGroups(Split(out, " "))) - 1

\* C28: the telephone stage renders a telephone number of 9 to 15 digits as
\* the words of its digits in order, one word per digit, in consecutive groups
\* of 3 or 4 words with exactly one "sil" between two groups.
C28_PhoneGroupsOfThreeOrFour ==
    \A k \in 1..Len(applied) :
        (applied[k].stage = "telephone" /\ IsPhoneNumber(applied[k].in))
            => ClaimedPhoneRendering(applied[k].in, applied[k].out)

\* the unit keywords that measure_pattern lists and MEASURE_UNITS defines
ClaimedUnits ==
    {<<"k", "m">>, <<"k", "g">>, <<"m", "e", "t", "e", "r">>, <<"g", "r", "a", "m">>,
     <<"l", "i", "t", "e", "r">>, <<"k", "i", "l", "o", "m", "e", "t", "e", "r">>,
     <<"k", "i", "l", "o", "g", "r", "a", "m">>, <<"p", "e", "r", "c", "e", "n", "t">>,
     <<"%">>}

\* t read as <number><spaces><unit> with the number of a digits and the unit
\* from offset b on
MeasureSplit(t, a, b) ==
    /\ 1 <= a /\ a <= b /\ b < Len(t)
    /\ \A i \in 1..a : t[i] \in AsciiDigits
    /\ \A i \in (a + 1)..b : t[i] = " "
    /\ Lower(Slice(t, b, Len(t))) \in ClaimedUnits

\* t is a number, optional spaces and a claimed unit keyword in any case
IsMeasure(t) == \E a \in 1..Len(t), b \in 1..Len(t) : MeasureSplit(t, a, b)

\* the spelled number of the measure t followed by the name of its unit
MeasureRendering(t) ==
    LET a == CHOOSE a \in 1..Len(t) : \E b \in 1..Len(t) : MeasureSplit(t, a, b)
        b == CHOOSE b \in 1..Len(t) : \E c \in 1..Len(t) : MeasureSplit(t, c, b)
    IN  number_to_khmer_words(PyInt(SubSeq(t, 1, a)), TRUE) \o SP
        \o MEASURE_UNITS[Lower(Slice(t, b, Len(t)))]

\* C30: the measure stage rewrites a number, optional spaces and one of the
\* unit keywords km, kg, meter, gram, liter, kilometer, kilogram, percent, %,
\* in any case, to the spelled number and the Khmer name of the unit, so that
\* the keyword does not remain in Latin script.
C30_MeasureUnitsRewritten ==
    \A k \in 1..Len(applied) :
        (applied[k].stage = "measure" /\ IsMeasure(applied[k].in))
            => applied[k].out = MeasureRendering(applied[k].in)

\* the raw line is an entry of the lexicon: stripped, it is not empty, is no
\* comment, and has a tab after a word
IsEntry(raw) ==
    /\ Strip(raw) # <<>>
    /\ Strip(raw)[1] # "#"
    /\ \E i \in 1..Len(Strip(raw)) : Strip(raw)[i] = "TAB"
    /\ \E i \in 1..Len(Strip(raw)) :
          /\ Strip(raw)[i] \notin Space
          /\ \A j \in 1..i : Strip(raw)[j] # "TAB"

\* the offset of the k-th tab of s; Len(s) when s has fewer tabs
TabAt(s, k) ==
    IF Cardinality({i \in 1..Len(s) : s[i] = "TAB"}) < k THEN Len(s)
    ELSE (CHOOSE i \in 1..Len(s) :
             /\ s[i] = "TAB"
             /\ Cardinality({j \in 1..i : s[j] = "TAB"}) = k) - 1

\* the word of an entry: its first field without surrounding whitespace
EntryWord(raw) == Strip(Slice(Strip(raw), 0, TabAt(Strip(raw), 1)))

\* the phoneme tokens of an entry: the whitespace-separated pieces of its
\* second field
EntryPhones(raw) ==
    LET field == Slice(Strip(raw), TabAt(Strip(raw), 1) + 1, TabAt(Strip(raw), 2))
        runs == WordRuns(field)
    IN  [k \in 1..Cardinality(runs) |-> WordRun(field, k)]

\* the last entry for the word w among the lines
LastEntry(lines, w) ==
    lines[Greatest({i \in 1..Len(lines) : IsEntry(lines[i]) /\ EntryWord(lines[i]) = w})]

\* C21: load_lexicon maps every word of an entry of the file to the phonemes
\* of the last entry for that word, in file order; empty lines, comments and
\* lines with fewer than two tab-separated fields add nothing and do not
\* disturb the other lines; a missing file gives the empty lexicon.
C21_LexiconLastEntryWins ==
    (load.pc = "returned" /\ load.op = "load_lexicon")
        => /\ ~load.file.exists => load.lex = <<>>
           /\ ~load.failed =>
                 /\ DOMAIN load.lex
                       = {EntryWord(load.file.lines[i]) :
                             i \in {j \in 1..Len(load.file.lines) :
                                       IsEntry(load.file.lines[j])}}
                 /\ \A w \in DOMAIN load.lex :
                       load.lex[w] = EntryPhones(LastEntry(load.file.lines, w))

\* a lexicon loaded from a file with two entries for one word, with different
\* phonemes, and a line that is skipped
C21_Witness ==
    /\ load.pc = "returned"
    /\ load.op = "load_lexicon"
    /\ ~load.failed
    /\ \E i, j, k \in 1..Len(load.file.lines) :
          /\ i < j
          /\ IsEntry(load.file.lines[i]) /\ IsEntry(load.file.lines[j])
          /\ ~IsEntry(load.file.lines[k])
          /\ EntryWord(load.file.lines[i]) = EntryWord(load.file.lines[j])
          /\ EntryPhones(load.file.lines[i]) # EntryPhones(load.file.lines[j])
          /\ load.lex[EntryWord(load.file.lines[j])] = EntryPhones(load.file.lines[j])

\* C23: a loader whose file is missing or unreadable, or whose read fails
\* part-way through the file, returns an empty result: load_lexicon the empty
\* lexicon, load_word_set the empty word set and the maximum length 0,
\* load_testdata_tsv the empty table.
C23_LoadFailureGivesEmptyTable ==
    (load.pc = "returned" /\ load.failed)
        => /\ load.lex = <<>>
           /\ load.word_set = {} /\ load.max_len = 0
           /\ load.data = <<>>

\* what a stage that the default switches apply gives for the text s, run on
\* its own
StageAlone(stage, s) ==
    CASE stage = "electronic" -> normalize_electronic(s)
      [] stage = "emoticons" -> normalize_emoticons(s)
      [] stage = "telephone" -> normalize_telephone(s)
      [] stage = "time" -> normalize_time(s)
      [] stage = "money" -> normalize_money(s)
      [] stage = "measure" -> normalize_measure(s)
      [] stage = "year_date" -> year_date_pass(s, TRUE)
      [] stage = "fraction" -> fraction_pass(s)
      [] stage = "no_year_date" -> no_year_date_pass(s)
      [] stage = "decimal" -> normalize_decimal(s)
      [] stage = "cardinal" -> normalize_cardinal(s)

\* the text khmer_g2p splits into tokens when normalize_khmer_text gave s
SegmentedAlone(s, auto_segment) ==
    IF auto_segment /\ s # <<>>
    THEN segment_khmer_text(s, "bidirectional", FALSE, {}, FALSE, 0).out
    ELSE s

\* every finished call has the result that the same call gives on its own: a
\* call of normalize_khmer_text the composition of the eleven stages on its
\* input, a call of khmer_g2p the words of the tokens of that text
ResultsAsInIsolation ==
    /\ (pc = "done" /\ cfg = DefaultConfig) =>
          /\ Len(applied) = 11
          /\ \A k \in 1..Len(applied) :
                /\ applied[k].in = IF k = 1 THEN input ELSE applied[k - 1].out
                /\ applied[k].out = StageAlone(applied[k].stage, applied[k].in)
          /\ text = applied[Len(applied)].out
    /\ conv.status = "returned"
          => conv.out = number_to_khmer_words(conv.num, conv.use_testdata)
    /\ seg.op = "forward"
          => seg.result = longest_matching(seg.text, seg.word_set, seg.max_word_len)
    /\ seg.op = "reverse"
          => seg.result = reverse_longest_matching(seg.text, seg.word_set,
                                                   seg.max_word_len)
    /\ seg.op = "bidirectional"
          => seg.result = bidirectional_matching(seg.text, seg.word_set,
                                                 seg.max_word_len)
    /\ segtext.status = "returned"
          => segtext.out = segment_khmer_text(segtext.text, segtext.method,
                                              segtext.word_set_given, segtext.word_set,
                                              segtext.max_word_len_given,
                                              segtext.max_word_len).out
    /\ g2p.pc = "returned"
          => /\ g2p.arg = input
             /\ g2p.out = [k \in 1..Cardinality(WordRuns(SegmentedAlone(text,
                                                                       g2p.auto_segment)))
                              |-> G2pWord(WordRun(SegmentedAlone(text, g2p.auto_segment),
                                                  k))]

\* C24: no step of a call of normalize_khmer_text, number_to_khmer_words, a
\* segmenter, segment_khmer_text or khmer_g2p, in any interleaving, changes
\* the lexicon (and with it the word set and the maximum word length) or an
\* override table, and every finished call has the result the same call gives
\* on its own under the tables as loaded.
C24_TablesNeverMutated ==
    /\ [][/\ LEXICON' = LEXICON
          /\ CARDINAL_TESTDATA' = CARDINAL_TESTDATA
          /\ DIGIT_TESTDATA' = DIGIT_TESTDATA]_vars
    /\ []ResultsAsInIsolation

\* calls of all five kinds have finished side by side under a loaded lexicon
\* and loaded override tables
C24_Witness ==
    /\ LEXICON # <<>>
    /\ CARDINAL_TESTDATA # <<>>
    /\ g2p.pc = "returned" /\ g2p.out # <<>>
    /\ conv.status = "returned"
    /\ seg.op # "none"
    /\ segtext.status = "returned"
    /\ pc = "done"
====
